---- MODULE Spec2Model ----
(***************************************************************************)
(* A model of the panoramic viewer of assets/panoramic-viewer.js:          *)
(* PanoramicUtils, PanoramicRenderer, PanoramicControls,                   *)
(* PanoramicAccessibility and PanoramicViewer (the first, modular class    *)
(* of that file).                                                          *)
(*                                                                         *)
(* JavaScript numbers are modelled as exact rationals <<n, d>> (d > 0, in  *)
(* lowest terms), so scale and pan are computed exactly as the code's      *)
(* formulas compute them, without floating-point rounding.                 *)
(***************************************************************************)
EXTENDS Integers, Sequences, FiniteSets, TLC

(***************************************************************************)
(* Bounds of the model.                                                    *)
(***************************************************************************)
\* number of user gestures (zoom, pan, reset, resize) explored by SpecView
MaxSteps == 4

(***************************************************************************)
(* Exact rational arithmetic.                                              *)
(***************************************************************************)
Abs(x) == IF x < 0 THEN -x ELSE x

RECURSIVE GCD(_, _)
GCD(a, b) == IF b = 0 THEN a ELSE GCD(b, a % b)

LCM(a, b) == (a \div GCD(a, b)) * b

\* the rational n/d (d # 0) in lowest terms with a positive denominator
Rat(n, d) ==
    LET s == IF d < 0 THEN -1 ELSE 1
        g == GCD(Abs(n), Abs(d))
    IN  << (s * n) \div g, (s * d) \div g >>

RInt(n) == << n, 1 >>

RNeg(a) == << -a[1], a[2] >>

RAdd(a, b) ==
    LET l == LCM(a[2], b[2])
    IN  Rat(a[1] * (l \div a[2]) + b[1] * (l \div b[2]), l)

RSub(a, b) == RAdd(a, RNeg(b))

RMul(a, b) ==
    LET g1 == GCD(Abs(a[1]), b[2])
        g2 == GCD(Abs(b[1]), a[2])
    IN  Rat((a[1] \div g1) * (b[1] \div g2), (a[2] \div g2) * (b[2] \div g1))

\* a / b for b # 0
RDiv(a, b) == RMul(a, Rat(b[2], b[1]))

RLt(a, b) ==
    LET l == LCM(a[2], b[2])
    IN  a[1] * (l \div a[2]) < b[1] * (l \div b[2])

RLe(a, b) == ~RLt(b, a)

RMin(a, b) == IF RLt(b, a) THEN b ELSE a

RMax(a, b) == IF RLt(a, b) THEN b ELSE a

RAbs(a) == << Abs(a[1]), a[2] >>

RZero == RInt(0)

ROne == RInt(1)

(***************************************************************************)
(* PanoramicUtils: pure helpers.                                           *)
(***************************************************************************)
\* Math.max(min, Math.min(max, value))
clamp(value, min, max) == RMax(min, RMin(max, value))

\* the renderer's fit scale, as assets/panoramic-viewer.js computes it
calculateOptimalScale(imageWidth, imageHeight, containerWidth, containerHeight) ==
    LET heightScale == Rat(containerHeight, imageHeight)
        widthScale == Rat(containerWidth, imageWidth)
        aspectRatio == Rat(imageWidth, imageHeight)
    IN  IF RLt(RInt(2), aspectRatio)
        THEN heightScale
        ELSE RMin(heightScale, widthScale)

\* the same helper in assets/modules/panoramic-utils.js
calculateOptimalScaleModule(imageWidth, imageHeight, containerWidth, containerHeight) ==
    LET heightScale == Rat(containerHeight, imageHeight)
        widthScale == Rat(containerWidth, imageWidth)
    IN  RMin(ROne, RMax(heightScale, widthScale))

\* Math.sqrt on the perfect squares the model's pointer positions produce
Sqrt(n) == CHOOSE r \in 0..n : r * r = n

\* the distance measured along the axes
calculateDistance_Manhattan(x1, y1, x2, y2) ==
    (IF x2 - x1 < 0 THEN x1 - x2 ELSE x2 - x1) + (IF y2 - y1 < 0 THEN y1 - y2 ELSE y2 - y1)

calculateDistance(x1, y1, x2, y2) ==
    LET deltaX == x2 - x1
        deltaY == y2 - y1
    IN  Sqrt(deltaX * deltaX + deltaY * deltaY)

(***************************************************************************)
(* State.                                                                  *)
(***************************************************************************)
VARIABLES
    \* PanoramicRenderer
    images,                  \* this.images: the loaded full-resolution bitmaps
    thumbnailImages,         \* this.thumbnailImages: index -> bitmap or NoImage
    loadingErrors,           \* this.loadingErrors
    stitchedCanvas,          \* the full-resolution composite, or NoCanvas
    thumbnailStitchedCanvas, \* the preview composite, or NoCanvas
    canvas,                  \* the drawing surface's width and height
    scale, panX, panY,       \* the view transform
    renderScheduled,         \* this._renderScheduled
    lastRenderTime,          \* this._lastRenderTime, in milliseconds
    rafCallbacks,            \* animation-frame callbacks registered and not yet run
    \* PanoramicControls
    isDragging, isMouseDown, startX, startY, initialMouseX, initialMouseY,
    lastTouchDistance,
    \* PanoramicAccessibility
    previousFocus, trapFocusHandler, loadingDisplay, title,
    trapEnds,                \* firstElement and lastElement captured by trapFocus
    trapListeners,           \* keydown listeners of trapFocus on the modal
    \* PanoramicViewer
    modalActive,             \* the modal carries the class 'active'
    bodyOverflow,            \* document.body.style.overflow
    docKeydownListeners,     \* registrations of handleModalKeydown on document
    lastImageUrls,           \* this._lastImageUrls
    errorPanels,             \* the .panoramic-error panels in the modal, first first
    loads,                   \* the loadImages calls whose segments are still loading
    \* the page
    viewerRect,              \* the viewer's bounding box
    activeElement,           \* document.activeElement
    \* bookkeeping of the exploration
    steps,                   \* gestures and open requests made so far
    lastOp,                  \* what the last handler that ran was and did
    openerFocus,             \* the element focused when the open that opened
                             \* the viewer was requested
    \* PanoramicUtils.loadImageWithRetry and its loadImageWithTimeout calls
    loadUrl,                 \* the url being loaded
    requests,                \* one record per loadImageWithTimeout call
    attempt,                 \* the loop variable of loadImageWithRetry
    retryState,              \* where loadImageWithRetry stands
    lastError,               \* the error loadImageWithRetry caught last
    \* one segment of loadImages: its loadImageProgressive call
    thumbRequest,            \* the loadImageWithTimeout call for the thumbnail
    phase,                   \* where loadImageProgressive stands
    events,                  \* the progress and error events reported so far
    \* applications of the pure functions
    calcArgs, calcResult,    \* calculateOptimalScale: arguments and result
    stitchInput,             \* createStitchedCanvas: the bitmaps passed
    stitchResult,            \* the canvas it allocated
    stitchDraws,             \* the drawImage calls it made
    zoomArgs,                \* zoomAtPoint: the renderer's fields and the arguments
    zoomResult,              \* the renderer's fields after it
    \* time and what has been drawn
    clock,                   \* performance.now(), in whole milliseconds
    lastRender,              \* the last render(): its kind, its time and the
                             \* transform it drew
    outstanding,             \* scheduleRender was called and no render() has
                             \* run since
    \* PanoramicAccessibility's live region
    statusText,              \* statusEl.textContent
    clearTimers,             \* the times at which pending clear timers are due
    announced                \* the last announceStatus call: its time and delay

rendererVars ==
    << images, thumbnailImages, loadingErrors, stitchedCanvas,
       thumbnailStitchedCanvas, canvas, scale, panX, panY, renderScheduled,
       rafCallbacks >>

controlsVars ==
    << isDragging, isMouseDown, startX, startY, initialMouseX, initialMouseY,
       lastTouchDistance >>

accessibilityVars == << previousFocus, trapFocusHandler, loadingDisplay, title,
                        trapEnds, trapListeners >>

viewerVars ==
    << modalActive, bodyOverflow, docKeydownListeners, lastImageUrls, errorPanels,
       loads >>

pageVars == << viewerRect, activeElement >>

progressiveVars == << thumbRequest, phase, events >>

loaderVars == << loadUrl, requests, attempt, retryState, lastError, progressiveVars >>

calcVars ==
    << calcArgs, calcResult, stitchInput, stitchResult, stitchDraws, zoomArgs,
       zoomResult >>

\* the specifications that abstract from time leave these alone
statusVars == << statusText, clearTimers, announced >>

timingVars == << lastRenderTime, clock, lastRender, outstanding, statusVars >>

utilVars == << loaderVars, calcVars, timingVars >>

appVars ==
    << rendererVars, controlsVars, accessibilityVars, viewerVars, pageVars,
       steps, lastOp, openerFocus >>

vars == << appVars, utilVars >>

Null == "null"

\* no focus-trap handler holds any element
NoEnds == << "none", "none" >>

\* this._lastImageUrls before any successful load
NoUrls == << >>

NoCanvas == [width |-> 0, height |-> 0, from |-> << >>, exists |-> FALSE]

\* zoomAtPoint not applied
NoZoom == [applied |-> FALSE]

\* no error message
NoMessage == [prefix |-> "", url |-> ""]

\* no thumbnail requested
NoRequest ==
    [url |-> "", timeout |-> 0, isResolved |-> FALSE, timer |-> "none",
     loadFired |-> FALSE, errorFired |-> FALSE, promise |-> "none",
     reason |-> NoMessage, calls |-> 0, first |-> "none"]

NoImage == [url |-> "", width |-> 0, height |-> 0]

Bitmap(u, w, h) == [url |-> u, width |-> w, height |-> h]

(***************************************************************************)
(* PanoramicRenderer.                                                      *)
(***************************************************************************)
minScale == Rat(1, 2)

maxScale == RInt(3)

RECURSIVE SumWidth(_)
SumWidth(imgs) ==
    IF imgs = << >> THEN 0 ELSE Head(imgs).width + SumWidth(Tail(imgs))

RECURSIVE MaxHeightOf(_)
MaxHeightOf(imgs) ==
    IF imgs = << >> THEN 0
    ELSE LET m == MaxHeightOf(Tail(imgs))
         IN  IF Head(imgs).height > m THEN Head(imgs).height ELSE m

\* a canvas narrower by the overlap of each bitmap after the first
createStitchedCanvas_MinusOverlap(imgs) ==
    [width |-> SumWidth(imgs) - 2 * (Len(imgs) - 1),
     height |-> MaxHeightOf(imgs),
     from |-> [i \in 1..Len(imgs) |-> imgs[i].url],
     exists |-> TRUE]

\* the canvas createStitchedCanvas allocates and draws the bitmaps into
createStitchedCanvas(imgs) ==
    [width |-> SumWidth(imgs),
     height |-> MaxHeightOf(imgs),
     from |-> [i \in 1..Len(imgs) |-> imgs[i].url],
     exists |-> TRUE]

\* stitchedCanvas after setupSingleImage()
setupSingleImage(imgs, sc) ==
    IF Len(imgs) # 1 THEN sc
    ELSE [width |-> imgs[1].width, height |-> imgs[1].height,
          from |-> << imgs[1].url >>, exists |-> TRUE]

\* stitchedCanvas after stitchImages()
stitchImages(imgs, sc) ==
    IF Len(imgs) # 3 THEN sc ELSE createStitchedCanvas(imgs)

\* thumbnailStitchedCanvas after stitchThumbnails()
stitchThumbnails(thumbs, tc) ==
    LET validThumbnails == SelectSeq(thumbs, LAMBDA img : img # NoImage)
    IN  IF Len(thumbs) # 3 \/ Len(validThumbnails) = 0 THEN tc
        ELSE createStitchedCanvas(validThumbnails)

\* the thumbnail composite preferred to the full-resolution one
CanvasToUse_ThumbnailFirst(sc, tc) == IF tc.exists THEN tc ELSE sc

\* this.stitchedCanvas || this.thumbnailStitchedCanvas
CanvasToUse(sc, tc) == IF sc.exists THEN sc ELSE tc

\* render(): the canvas coordinate, on one axis, at which the composite's
\* origin is drawn: (canvas size - composite size * scale) / 2 + pan
renderOrigin(canvasDim, surfaceDim, s, pan) ==
    RAdd(RDiv(RSub(RInt(canvasDim), RMul(RInt(surfaceDim), s)), RInt(2)), pan)

\* <<panX, panY>> after constrainPan()
constrainPan(px, py, s, cv, sc, tc) ==
    LET canvasToUse == CanvasToUse(sc, tc)
        scaledWidth == RMul(RInt(canvasToUse.width), s)
        scaledHeight == RMul(RInt(canvasToUse.height), s)
        maxPanX == RMax(RZero, RDiv(RSub(scaledWidth, RInt(cv.width)), RInt(2)))
        maxPanY == RMax(RZero, RDiv(RSub(scaledHeight, RInt(cv.height)), RInt(2)))
    IN  IF ~canvasToUse.exists THEN << px, py >>
        ELSE << clamp(px, RNeg(maxPanX), maxPanX), clamp(py, RNeg(maxPanY), maxPanY) >>

\* <<_renderScheduled, rafCallbacks>> after scheduleRender()
scheduleRender(scheduled, callbacks) ==
    IF ~scheduled THEN << TRUE, callbacks + 1 >> ELSE << scheduled, callbacks >>

\* a zoom(factor) that leaves the pan as it was
zoom_NoConstrain(factor, s, px, py, cv, sc, tc, scheduled, callbacks) ==
    LET newScale == clamp(RMul(s, factor), minScale, maxScale)
        sched == scheduleRender(scheduled, callbacks)
    IN  IF newScale # s
        THEN [scale |-> newScale, panX |-> px, panY |-> py,
              renderScheduled |-> sched[1], rafCallbacks |-> sched[2],
              zoomed |-> TRUE]
        ELSE [scale |-> s, panX |-> px, panY |-> py,
              renderScheduled |-> scheduled, rafCallbacks |-> callbacks,
              zoomed |-> FALSE]

\* the renderer's fields after zoom(factor), and its return value
zoom(factor, s, px, py, cv, sc, tc, scheduled, callbacks) ==
    LET newScale == clamp(RMul(s, factor), minScale, maxScale)
        pan == constrainPan(px, py, newScale, cv, sc, tc)
        sched == scheduleRender(scheduled, callbacks)
    IN  IF newScale # s
        THEN [scale |-> newScale, panX |-> pan[1], panY |-> pan[2],
              renderScheduled |-> sched[1], rafCallbacks |-> sched[2],
              zoomed |-> TRUE]
        ELSE [scale |-> s, panX |-> px, panY |-> py,
              renderScheduled |-> scheduled, rafCallbacks |-> callbacks,
              zoomed |-> FALSE]

\* the renderer's fields after setPan(x, y)
setPan(x, y, s, cv, sc, tc, scheduled, callbacks) ==
    LET pan == constrainPan(x, y, s, cv, sc, tc)
        sched == scheduleRender(scheduled, callbacks)
    IN  [panX |-> pan[1], panY |-> pan[2],
         renderScheduled |-> sched[1], rafCallbacks |-> sched[2]]

\* a resetView() that leaves the pan as it was
resetView_KeepPan(sc, tc, cv, rect, s, px, py, scheduled) ==
    LET canvasToUse == CanvasToUse(sc, tc)
        newCanvas == IF cv.width # rect.width \/ cv.height # rect.height
                     THEN [width |-> rect.width, height |-> rect.height]
                     ELSE cv
    IN  IF ~canvasToUse.exists
        THEN [canvas |-> cv, scale |-> s, panX |-> px, panY |-> py,
              renderScheduled |-> scheduled]
        ELSE [canvas |-> newCanvas,
              scale |-> calculateOptimalScale(canvasToUse.width, canvasToUse.height,
                                              newCanvas.width, newCanvas.height),
              panX |-> px, panY |-> py,
              renderScheduled |-> FALSE]

\* the renderer's fields after resetView() on the composites sc and tc
resetView(sc, tc, cv, rect, s, px, py, scheduled) ==
    LET canvasToUse == CanvasToUse(sc, tc)
        newCanvas == IF cv.width # rect.width \/ cv.height # rect.height
                     THEN [width |-> rect.width, height |-> rect.height]
                     ELSE cv
    IN  IF ~canvasToUse.exists
        THEN [canvas |-> cv, scale |-> s, panX |-> px, panY |-> py,
              renderScheduled |-> scheduled]
        ELSE [canvas |-> newCanvas,
              scale |-> calculateOptimalScale(canvasToUse.width, canvasToUse.height,
                                              newCanvas.width, newCanvas.height),
              panX |-> RZero, panY |-> RZero,
              renderScheduled |-> FALSE]

(***************************************************************************)
(* PanoramicControls.                                                      *)
(***************************************************************************)
dragThreshold == 5

\* the arrow keys' pan step (const step = 20 in handleKeyDown)
step == 20

\* zoomAtPoint without the final constrainPan()
zoomAtPoint_NoConstrain(factor, pointX, pointY, s, px, py, cv, sc, tc, scheduled, callbacks) ==
    LET z == zoom(factor, s, px, py, cv, sc, tc, scheduled, callbacks)
        scaleChange == RDiv(z.scale, s)
        offsetX == RSub(pointX, Rat(cv.width, 2))
        offsetY == RSub(pointY, Rat(cv.height, 2))
    IN  IF z.zoomed
        THEN [z EXCEPT !.panX = RSub(z.panX, RMul(offsetX, RSub(scaleChange, ROne))),
                       !.panY = RSub(z.panY, RMul(offsetY, RSub(scaleChange, ROne)))]
        ELSE z

\* zoomAtPoint measuring the pointer from the canvas origin, not its centre
zoomAtPoint_FromOrigin(factor, pointX, pointY, s, px, py, cv, sc, tc, scheduled, callbacks) ==
    LET z == zoom(factor, s, px, py, cv, sc, tc, scheduled, callbacks)
        scaleChange == RDiv(z.scale, s)
        pan == constrainPan(RSub(z.panX, RMul(pointX, RSub(scaleChange, ROne))),
                            RSub(z.panY, RMul(pointY, RSub(scaleChange, ROne))),
                            z.scale, cv, sc, tc)
        sched == scheduleRender(z.renderScheduled, z.rafCallbacks)
    IN  IF z.zoomed
        THEN [scale |-> z.scale, panX |-> pan[1], panY |-> pan[2],
              renderScheduled |-> sched[1], rafCallbacks |-> sched[2],
              zoomed |-> TRUE]
        ELSE z

\* the renderer's fields after zoomAtPoint(factor, pointX, pointY)
zoomAtPoint(factor, pointX, pointY, s, px, py, cv, sc, tc, scheduled, callbacks) ==
    LET oldScale == s
        z == zoom(factor, s, px, py, cv, sc, tc, scheduled, callbacks)
        scaleChange == RDiv(z.scale, oldScale)
        canvasCenterX == Rat(cv.width, 2)
        canvasCenterY == Rat(cv.height, 2)
        offsetX == RSub(pointX, canvasCenterX)
        offsetY == RSub(pointY, canvasCenterY)
        shiftedX == RSub(z.panX, RMul(offsetX, RSub(scaleChange, ROne)))
        shiftedY == RSub(z.panY, RMul(offsetY, RSub(scaleChange, ROne)))
        pan == constrainPan(shiftedX, shiftedY, z.scale, cv, sc, tc)
        sched == scheduleRender(z.renderScheduled, z.rafCallbacks)
    IN  IF z.zoomed
        THEN [scale |-> z.scale, panX |-> pan[1], panY |-> pan[2],
              renderScheduled |-> sched[1], rafCallbacks |-> sched[2],
              zoomed |-> TRUE]
        ELSE z

\* getTouchDistance(touches)
getTouchDistance(touches) ==
    IF Len(touches) < 2 THEN 0
    ELSE calculateDistance(touches[1][1], touches[1][2], touches[2][1], touches[2][2])

(***************************************************************************)
(* PanoramicAccessibility and PanoramicViewer: helpers.                    *)
(***************************************************************************)
\* a registration that adds the handler again on every call
addKeydownListener_NoDedup(n) == n + 1

\* document.addEventListener('keydown', this.handleModalKeydown): the same
\* function object registered again is not added a second time
addKeydownListener(n) == IF n = 0 THEN 1 ELSE n

\* document.removeEventListener('keydown', this.handleModalKeydown)
removeKeydownListener(n) == IF n > 0 THEN n - 1 ELSE n

\* the record kept in lastOp
Op(name) == [name |-> name, requested |-> << >>, valid |-> FALSE, load |-> FALSE,
             resolved |-> FALSE, late |-> FALSE, closeRuns |-> 0]

(***************************************************************************)
(* SpecView: the view transform under gestures.  A session is opened on    *)
(* one of ViewImageSets, then zoom, pan, reset and resize events arrive in *)
(* any order.                                                              *)
(***************************************************************************)
\* the empty live region
NoStatus == [kind |-> "", percent |-> 0]

\* no render() has run yet
NoRender == [kind |-> "none", at |-> 0, scale |-> ROne, panX |-> RZero, panY |-> RZero]

\* the bounding boxes the viewer can have
ViewerRects == { [width |-> 80, height |-> 60], [width |-> 40, height |-> 40] }

\* loaded image sets: 3 segments for a panorama, 1 bitmap for a single image
ViewImageSets ==
    { << Bitmap("a1", 200, 100), Bitmap("a2", 200, 150), Bitmap("a3", 200, 120) >>,
      << Bitmap("s1", 100, 200) >>,
      << Bitmap("s2", 100, 10) >> }

\* pointer positions of wheel events, relative to the viewer
WheelPoints == { << 40, 30 >>, << 0, 0 >>, << 70, 10 >> }

\* pointer positions of mouse and one-finger events
MousePoints == { << 0, 0 >>, << 3, 4 >>, << 90, 120 >> }

\* two-finger touch positions
TouchPairs ==
    { << << 0, 0 >>, << 40, 0 >> >>,
      << << 0, 0 >>, << 30, 40 >> >>,
      << << 20, 20 >>, << 20, 20 >> >> }

Keys == { "ArrowLeft", "ArrowRight", "ArrowUp", "ArrowDown", "+", "=", "-", "0" }

ViewerInit ==
    /\ images = << >>
    /\ thumbnailImages = << >>
    /\ loadingErrors = << >>
    /\ stitchedCanvas = NoCanvas
    /\ thumbnailStitchedCanvas = NoCanvas
    /\ canvas = [width |-> 300, height |-> 150]
    /\ scale = ROne
    /\ panX = RZero
    /\ panY = RZero
    /\ renderScheduled = FALSE
    /\ lastRenderTime = 0
    /\ clock = 0
    /\ lastRender = NoRender
    /\ outstanding = FALSE
    /\ statusText = NoStatus
    /\ clearTimers = {}
    /\ announced = [at |-> 0, clearDelay |-> 0]
    /\ rafCallbacks = 0
    /\ isDragging = FALSE
    /\ isMouseDown = FALSE
    /\ startX = RZero
    /\ startY = RZero
    /\ initialMouseX = 0
    /\ initialMouseY = 0
    /\ lastTouchDistance = 0
    /\ previousFocus = Null
    /\ trapFocusHandler = FALSE
    /\ trapEnds = NoEnds
    /\ trapListeners = 0
    /\ loadingDisplay = "none"
    /\ title = "Panoramic Image Viewer"
    /\ modalActive = FALSE
    /\ bodyOverflow = ""
    /\ docKeydownListeners = 0
    /\ lastImageUrls = NoUrls
    /\ errorPanels = << >>
    /\ loads = << >>
    /\ viewerRect \in ViewerRects
    /\ activeElement = "body"
    /\ steps = 0
    /\ lastOp = Op("init")
    /\ openerFocus = Null

\* no image is being loaded by loadImageWithRetry
LoaderIdle ==
    /\ loadUrl = ""
    /\ requests = << >>
    /\ attempt = 0
    /\ retryState = "idle"
    /\ lastError = NoMessage
    /\ thumbRequest = NoRequest
    /\ phase = "idle"
    /\ events = << >>

\* no pure function is being applied
CalcIdle ==
    /\ calcArgs = << >>
    /\ calcResult = << >>
    /\ stitchInput = << >>
    /\ stitchResult = NoCanvas
    /\ stitchDraws = << >>
    /\ zoomArgs = NoZoom
    /\ zoomResult = NoZoom

ViewInit ==
    /\ ViewerInit
    /\ LoaderIdle
    /\ CalcIdle

\* the retry button of the error panel that is n-th from the bottom of the
\* container's stack of error panels
RetryButton(n) == << "retry1", "retry2", "retry3" >>[n]

\* the modal's focusable elements in document order: the retry buttons of the
\* error panels (newest first), then the close button, the viewer and the
\* three zoom buttons
FocusableElements(panels) ==
    [j \in 1..Len(panels) |-> RetryButton(Len(panels) - j + 1)] \o
    << "close", "viewer", "zoomOut", "zoomReset", "zoomIn" >>

\* trapFocus: the first and the last focusable element at the time of the call
trapFocus(panels) ==
    LET focusableElements == FocusableElements(panels)
    IN  << focusableElements[1], focusableElements[Len(focusableElements)] >>

\* removeFocusTrap, and the first lines of trapFocus: the stored handler, if
\* any, is removed from the modal
removeFocusTrap(handler, listeners) ==
    IF handler THEN listeners - 1 ELSE listeners

\* the captured first element once only the panels in remaining are left: a
\* retry button of a removed panel is no longer in the document
Detached(ends, remaining) ==
    IF \E n \in (Len(remaining) + 1)..3 : ends[1] = RetryButton(n)
    THEN << "detached", ends[2] >>
    ELSE ends

\* what openViewer does once the pipeline has succeeded: mark the modal open,
\* move focus into the viewer, trap focus, install the Escape handler and
\* suppress page scroll; requestFocus is the element that was focused when
\* this openViewer call was made, focused the element focused now
MarkOpen(requestFocus, focused, panels) ==
    /\ openerFocus' = IF modalActive THEN openerFocus ELSE requestFocus
    /\ modalActive' = TRUE
    /\ previousFocus' = focused
    /\ activeElement' = "viewer"
    /\ trapFocusHandler' = TRUE
    /\ trapEnds' = trapFocus(panels)
    /\ trapListeners' = removeFocusTrap(trapFocusHandler, trapListeners) + 1
    /\ docKeydownListeners' = addKeydownListener(docKeydownListeners)
    /\ bodyOverflow' = "hidden"

\* the renderer's fields are set from a record of new values
SetTransform(r) ==
    /\ scale' = r.scale
    /\ panX' = r.panX
    /\ panY' = r.panY
    /\ renderScheduled' = r.renderScheduled
    /\ rafCallbacks' = r.rafCallbacks

\* a pointer, touch or key event on the displayed viewer
Gesture ==
    /\ modalActive
    /\ steps < MaxSteps
    /\ steps' = steps + 1
    /\ UNCHANGED utilVars
    /\ lastOp' = Op("gesture")
    /\ UNCHANGED openerFocus

\* openViewer on a thumbnail whose images all load: loadImages, stitch,
\* resetView, then the modal is marked open
ViewOpened ==
    \E imgs \in ViewImageSets :
        LET sc == IF Len(imgs) = 1 THEN setupSingleImage(imgs, stitchedCanvas)
                  ELSE stitchImages(imgs, stitchedCanvas)
            r == resetView(sc, thumbnailStitchedCanvas, canvas, viewerRect,
                           scale, panX, panY, renderScheduled)
        IN  /\ steps < MaxSteps
            /\ steps' = steps + 1
            /\ lastOp' = Op("openViewer")
            /\ images' = imgs
            /\ thumbnailImages' = << >>
            /\ loadingErrors' = << >>
            /\ stitchedCanvas' = sc
            /\ canvas' = r.canvas
            /\ scale' = r.scale
            /\ panX' = r.panX
            /\ panY' = r.panY
            /\ renderScheduled' = r.renderScheduled
            /\ lastImageUrls' = [i \in 1..Len(imgs) |-> imgs[i].url]
            /\ title' = imgs[1].url
            /\ MarkOpen(activeElement, activeElement, errorPanels)
            /\ UNCHANGED << thumbnailStitchedCanvas, rafCallbacks, controlsVars,
                            loadingDisplay, errorPanels, loads, viewerRect >>

ViewOpen ==
    /\ ViewOpened
    /\ UNCHANGED utilVars

\* the Reset button and key 0: PanoramicViewer.resetView / controls.resetView
ViewReset ==
    LET r == resetView(stitchedCanvas, thumbnailStitchedCanvas, canvas, viewerRect,
                       scale, panX, panY, renderScheduled)
    IN  /\ canvas' = r.canvas
        /\ scale' = r.scale
        /\ panX' = r.panX
        /\ panY' = r.panY
        /\ renderScheduled' = r.renderScheduled
        /\ UNCHANGED << images, thumbnailImages, loadingErrors, stitchedCanvas,
                        thumbnailStitchedCanvas, rafCallbacks >>

ZoomResetClick ==
    /\ Gesture
    /\ ViewReset
    /\ UNCHANGED << controlsVars, accessibilityVars, viewerVars, pageVars >>

\* renderer.zoom(factor) from a zoom button or a zoom key
ViewZoom(factor) ==
    /\ SetTransform(zoom(factor, scale, panX, panY, canvas, stitchedCanvas,
                         thumbnailStitchedCanvas, renderScheduled, rafCallbacks))
    /\ UNCHANGED << images, thumbnailImages, loadingErrors, stitchedCanvas,
                    thumbnailStitchedCanvas, canvas >>

ZoomInClick ==
    /\ Gesture
    /\ ViewZoom(Rat(12, 10))
    /\ UNCHANGED << controlsVars, accessibilityVars, viewerVars, pageVars >>

ZoomOutClick ==
    /\ Gesture
    /\ ViewZoom(Rat(8, 10))
    /\ UNCHANGED << controlsVars, accessibilityVars, viewerVars, pageVars >>

\* renderer.setPan(x, y)
ViewSetPan(x, y) ==
    LET r == setPan(x, y, scale, canvas, stitchedCanvas, thumbnailStitchedCanvas,
                    renderScheduled, rafCallbacks)
    IN  /\ panX' = r.panX
        /\ panY' = r.panY
        /\ renderScheduled' = r.renderScheduled
        /\ rafCallbacks' = r.rafCallbacks
        /\ UNCHANGED << images, thumbnailImages, loadingErrors, stitchedCanvas,
                        thumbnailStitchedCanvas, canvas, scale >>

handleKeyDown ==
    \E key \in Keys, isRTL \in BOOLEAN :
        /\ Gesture
        /\ CASE key = "ArrowLeft" ->
                    ViewSetPan(RAdd(panX, RInt(IF isRTL THEN -step ELSE step)), panY)
             [] key = "ArrowRight" ->
                    ViewSetPan(RAdd(panX, RInt(IF isRTL THEN step ELSE -step)), panY)
             [] key = "ArrowUp" -> ViewSetPan(panX, RAdd(panY, RInt(step)))
             [] key = "ArrowDown" -> ViewSetPan(panX, RSub(panY, RInt(step)))
             [] key \in { "+", "=" } -> ViewZoom(Rat(12, 10))
             [] key = "-" -> ViewZoom(Rat(8, 10))
             [] key = "0" -> ViewReset
        /\ UNCHANGED << controlsVars, accessibilityVars, viewerVars, pageVars >>

handleWheel ==
    \E down \in BOOLEAN, p \in WheelPoints :
        LET zoomFactor == IF down THEN Rat(9, 10) ELSE Rat(11, 10)
        IN  /\ Gesture
            /\ SetTransform(zoomAtPoint(zoomFactor, RInt(p[1]), RInt(p[2]), scale,
                                        panX, panY, canvas, stitchedCanvas,
                                        thumbnailStitchedCanvas, renderScheduled,
                                        rafCallbacks))
            /\ UNCHANGED << images, thumbnailImages, loadingErrors, stitchedCanvas,
                            thumbnailStitchedCanvas, canvas, controlsVars,
                            accessibilityVars, viewerVars, pageVars >>

\* the body of handleMouseDown for a press at p
MouseDownAt(p) ==
    /\ isMouseDown' = TRUE
    /\ initialMouseX' = p[1]
    /\ initialMouseY' = p[2]
    /\ UNCHANGED << rendererVars, isDragging, startX, startY, lastTouchDistance,
                    accessibilityVars, viewerVars, pageVars >>

handleMouseDown ==
    \E p \in MousePoints :
        /\ Gesture
        /\ MouseDownAt(p)

\* the body of handleMouseMove for a move to p while the button is down
MouseMoveAt(p) ==
    LET deltaX == p[1] - initialMouseX
        deltaY == p[2] - initialMouseY
        distance == calculateDistance(0, 0, deltaX, deltaY)
        starts == ~isDragging /\ distance > dragThreshold
        dragging == isDragging \/ starts
        sx == IF starts THEN RSub(RInt(initialMouseX), panX) ELSE startX
        sy == IF starts THEN RSub(RInt(initialMouseY), panY) ELSE startY
    IN  /\ isMouseDown
        /\ isDragging' = dragging
        /\ startX' = sx
        /\ startY' = sy
        /\ IF dragging
           THEN ViewSetPan(RSub(RInt(p[1]), sx), RSub(RInt(p[2]), sy))
           ELSE UNCHANGED rendererVars
        /\ UNCHANGED << isMouseDown, initialMouseX, initialMouseY,
                        lastTouchDistance, accessibilityVars, viewerVars,
                        pageVars >>

handleMouseMove ==
    \E p \in MousePoints :
        /\ Gesture
        /\ MouseMoveAt(p)

\* the body handleMouseUp and handleMouseLeave share
MouseReleased ==
    /\ isMouseDown' = FALSE
    /\ isDragging' = FALSE
    /\ UNCHANGED << rendererVars, startX, startY, initialMouseX, initialMouseY,
                    lastTouchDistance, accessibilityVars, viewerVars, pageVars >>

\* handleMouseUp and handleMouseLeave have the same body
handleMouseUp ==
    /\ Gesture
    /\ MouseReleased

handleTouchStart ==
    \/ \E p \in MousePoints :
        /\ Gesture
        /\ isDragging' = TRUE
        /\ startX' = RSub(RInt(p[1]), panX)
        /\ startY' = RSub(RInt(p[2]), panY)
        /\ UNCHANGED << rendererVars, isMouseDown, initialMouseX, initialMouseY,
                        lastTouchDistance, accessibilityVars, viewerVars, pageVars >>
    \/ \E touches \in TouchPairs :
        /\ Gesture
        /\ lastTouchDistance' = getTouchDistance(touches)
        /\ UNCHANGED << rendererVars, isDragging, isMouseDown, startX, startY,
                        initialMouseX, initialMouseY, accessibilityVars, viewerVars,
                        pageVars >>

handleTouchMove ==
    \/ \E p \in MousePoints :
        /\ Gesture
        /\ IF isDragging
           THEN ViewSetPan(RSub(RInt(p[1]), startX), RSub(RInt(p[2]), startY))
           ELSE UNCHANGED rendererVars
        /\ UNCHANGED << controlsVars, accessibilityVars, viewerVars, pageVars >>
    \/ \E touches \in TouchPairs :
        LET currentDistance == getTouchDistance(touches)
            scaleChange == Rat(currentDistance, lastTouchDistance)
            centerX == Rat(touches[1][1] + touches[2][1], 2)
            centerY == Rat(touches[1][2] + touches[2][2], 2)
        IN  /\ Gesture
            /\ IF lastTouchDistance = 0
               THEN /\ lastTouchDistance' = currentDistance
                    /\ UNCHANGED rendererVars
               ELSE /\ SetTransform(zoomAtPoint(scaleChange, centerX, centerY, scale,
                                                panX, panY, canvas, stitchedCanvas,
                                                thumbnailStitchedCanvas,
                                                renderScheduled, rafCallbacks))
                    /\ lastTouchDistance' = currentDistance
                    /\ UNCHANGED << images, thumbnailImages, loadingErrors,
                                    stitchedCanvas, thumbnailStitchedCanvas, canvas >>
            /\ UNCHANGED << isDragging, isMouseDown, startX, startY, initialMouseX,
                            initialMouseY, accessibilityVars, viewerVars, pageVars >>

handleTouchEnd ==
    /\ Gesture
    /\ isDragging' = FALSE
    /\ lastTouchDistance' = 0
    /\ UNCHANGED << rendererVars, isMouseDown, startX, startY, initialMouseX,
                    initialMouseY, accessibilityVars, viewerVars, pageVars >>

\* the page lays the viewer out at another size
Resize ==
    \E rect \in ViewerRects :
        /\ rect # viewerRect
        /\ steps < MaxSteps
        /\ steps' = steps + 1
        /\ viewerRect' = rect
        /\ UNCHANGED utilVars
        /\ lastOp' = Op("gesture")
        /\ UNCHANGED << rendererVars, controlsVars, accessibilityVars, viewerVars,
                        activeElement, openerFocus >>

\* an animation-frame callback registered by scheduleRender runs; due says
\* whether renderInterval has elapsed since the last render
AnimationFrame ==
    \E due \in BOOLEAN :
        LET sched == IF due THEN << FALSE, rafCallbacks - 1 >>
                     ELSE scheduleRender(FALSE, rafCallbacks - 1)
        IN  /\ rafCallbacks > 0
            /\ renderScheduled' = sched[1]
            /\ rafCallbacks' = sched[2]
            /\ UNCHANGED utilVars
            /\ lastOp' = Op("gesture")
            /\ UNCHANGED << images, thumbnailImages, loadingErrors, stitchedCanvas,
                            thumbnailStitchedCanvas, canvas, scale, panX, panY,
                            controlsVars, accessibilityVars, viewerVars, pageVars,
                            steps, openerFocus >>

ViewNext ==
    \/ ViewOpen
    \/ ZoomResetClick
    \/ ZoomInClick
    \/ ZoomOutClick
    \/ handleKeyDown
    \/ handleWheel
    \/ handleMouseDown
    \/ handleMouseMove
    \/ handleMouseUp
    \/ handleTouchStart
    \/ handleTouchMove
    \/ handleTouchEnd
    \/ Resize
    \/ AnimationFrame

SpecView == ViewInit /\ [][ViewNext]_vars

(***************************************************************************)
(* SpecMouse: the mouse on the displayed viewer.  The button is pressed,   *)
(* the pointer moves, the button is released and the pointer leaves, in    *)
(* any order; each step records the event and its position.                *)
(***************************************************************************)
\* a mouse event of the given type at position p on the displayed viewer
Pointer(type, p) ==
    /\ modalActive
    /\ steps < MaxSteps
    /\ steps' = steps + 1
    /\ UNCHANGED utilVars
    /\ lastOp' = [Op(type) EXCEPT !.requested = p]
    /\ UNCHANGED openerFocus

MousePress ==
    \E p \in MousePoints :
        /\ Pointer("mousedown", p)
        /\ MouseDownAt(p)

\* a mousemove event; handleMouseMove returns at once when no button is down
MouseMoves ==
    \E p \in MousePoints :
        /\ Pointer("mousemove", p)
        /\ IF isMouseDown THEN MouseMoveAt(p)
           ELSE UNCHANGED << rendererVars, controlsVars, accessibilityVars, viewerVars,
                             pageVars >>

MouseRelease ==
    /\ Pointer("mouseup", << >>)
    /\ MouseReleased

MouseLeaves ==
    /\ Pointer("mouseleave", << >>)
    /\ MouseReleased

MouseNext ==
    \/ ViewOpen
    \/ MousePress
    \/ MouseMoves
    \/ MouseRelease
    \/ MouseLeaves

SpecMouse == ViewInit /\ [][MouseNext]_vars

(***************************************************************************)
(* SpecRender: the renderer's redraws in time.  The clock advances, the    *)
(* renderer's operations are called in any order and the animation-frame   *)
(* callbacks scheduleRender registered run with the clock's value as their *)
(* timestamp.                                                              *)
(***************************************************************************)
\* the last millisecond explored
MaxClock == 34

\* the milliseconds between two events
ClockSteps == { 8, 9 }

\* pans requested through setPan
PanTargets == { << RInt(23), RZero >> }

\* factors passed to zoom by the buttons and the + and - keys
ButtonZoomFactors == { Rat(6, 5), Rat(4, 5) }

renderFPS == 60

renderInterval == Rat(1000, renderFPS)

\* a renderImmediate() that leaves _lastRenderTime as it was
renderImmediate_NoStamp(last, now) ==
    [renderScheduled |-> FALSE, lastRenderTime |-> last]

\* _renderScheduled and _lastRenderTime after renderImmediate() at time now
renderImmediate(last, now) ==
    [renderScheduled |-> FALSE, lastRenderTime |-> now]

\* an animation-frame callback that gives up when it comes too early
frameCallback_NoRearm(currentTime, last, callbacks) ==
    LET timeSinceLastRender == currentTime - last
    IN  IF RLe(renderInterval, RInt(timeSinceLastRender))
        THEN [render |-> TRUE, lastRenderTime |-> currentTime,
              renderScheduled |-> FALSE, rafCallbacks |-> callbacks - 1]
        ELSE [render |-> FALSE, lastRenderTime |-> last,
              renderScheduled |-> FALSE, rafCallbacks |-> callbacks - 1]

\* the callback scheduleRender passes to requestAnimationFrame, run with
\* timestamp currentTime: whether it calls render(), and the renderer's fields
\* after it
frameCallback(currentTime, last, callbacks) ==
    LET timeSinceLastRender == currentTime - last
        sched == scheduleRender(FALSE, callbacks - 1)
    IN  IF RLe(renderInterval, RInt(timeSinceLastRender))
        THEN [render |-> TRUE, lastRenderTime |-> currentTime,
              renderScheduled |-> FALSE, rafCallbacks |-> callbacks - 1]
        ELSE [render |-> FALSE, lastRenderTime |-> last,
              renderScheduled |-> sched[1], rafCallbacks |-> sched[2]]

\* render() called at the clock's time through renderImmediate or a frame
\* callback: it draws the transform the step leaves when there is a
\* composite, and nothing otherwise
Render(kind, sc) ==
    IF CanvasToUse(sc, thumbnailStitchedCanvas).exists
    THEN /\ lastRender' = [kind |-> kind, at |-> clock, scale |-> scale',
                           panX |-> panX', panY |-> panY']
         /\ outstanding' = FALSE
    ELSE UNCHANGED << lastRender, outstanding >>

\* a call of one of the renderer's operations
RendererCall(name) ==
    /\ steps < MaxSteps
    /\ steps' = steps + 1
    /\ lastOp' = Op(name)
    /\ UNCHANGED << loaderVars, calcVars, clock, statusVars >>

\* openViewer on a thumbnail whose images all load, at the clock's time
TimedOpen ==
    /\ ViewOpened
    /\ lastRenderTime' = renderImmediate(lastRenderTime, clock).lastRenderTime
    /\ Render("immediate", stitchedCanvas')
    /\ UNCHANGED << loaderVars, calcVars, clock, statusVars >>

\* resetView() at the clock's time
TimedResetView ==
    /\ RendererCall("resetView")
    /\ ViewReset
    /\ IF CanvasToUse(stitchedCanvas, thumbnailStitchedCanvas).exists
       THEN /\ lastRenderTime' = renderImmediate(lastRenderTime, clock).lastRenderTime
            /\ Render("immediate", stitchedCanvas)
       ELSE UNCHANGED << lastRenderTime, lastRender, outstanding >>
    /\ UNCHANGED << controlsVars, accessibilityVars, viewerVars, pageVars, openerFocus >>

\* setPan(x, y)
TimedSetPan ==
    \E target \in PanTargets :
        /\ RendererCall("setPan")
        /\ ViewSetPan(target[1], target[2])
        /\ outstanding' = TRUE
        /\ UNCHANGED << lastRenderTime, lastRender, controlsVars, accessibilityVars,
                        viewerVars, pageVars, openerFocus >>

\* zoom(factor)
TimedZoom ==
    \E factor \in ButtonZoomFactors :
        /\ RendererCall("zoom")
        /\ ViewZoom(factor)
        /\ outstanding' = (outstanding \/ scale' # scale)
        /\ UNCHANGED << lastRenderTime, lastRender, controlsVars, accessibilityVars,
                        viewerVars, pageVars, openerFocus >>

\* the browser runs an animation-frame callback registered by scheduleRender
FrameTick ==
    LET f == frameCallback(clock, lastRenderTime, rafCallbacks)
    IN  /\ rafCallbacks > 0
        /\ renderScheduled' = f.renderScheduled
        /\ rafCallbacks' = f.rafCallbacks
        /\ lastRenderTime' = f.lastRenderTime
        /\ lastOp' = Op("frame")
        /\ UNCHANGED << images, thumbnailImages, loadingErrors, stitchedCanvas,
                        thumbnailStitchedCanvas, canvas, scale, panX, panY,
                        controlsVars, accessibilityVars, viewerVars, pageVars,
                        steps, openerFocus, loaderVars, calcVars, clock,
                        statusVars >>
        /\ IF f.render THEN Render("scheduled", stitchedCanvas)
           ELSE UNCHANGED << lastRender, outstanding >>

\* time passes
TimePasses ==
    \E dt \in ClockSteps :
        /\ clock + dt <= MaxClock
        /\ clock' = clock + dt
        /\ lastOp' = Op("time")
        /\ UNCHANGED << rendererVars, controlsVars, accessibilityVars, viewerVars,
                        pageVars, steps, openerFocus, loaderVars, calcVars,
                        lastRenderTime, lastRender, outstanding, statusVars >>

RenderNext ==
    \/ TimedOpen
    \/ TimedResetView
    \/ TimedSetPan
    \/ TimedZoom
    \/ Resize
    \/ FrameTick
    \/ TimePasses

SpecRender == ViewInit /\ [][RenderNext]_vars

\* the browser keeps producing frames and time keeps passing
SpecRenderFair ==
    /\ SpecRender
    /\ WF_vars(FrameTick)
    /\ WF_vars(TimePasses)

(***************************************************************************)
(* SpecAnnounce: the live region.  A session is opened, the zoom and reset *)
(* buttons are clicked and the wheel is turned while time passes in steps  *)
(* of a second and the clear timers of announceStatus fire when due.       *)
(***************************************************************************)
\* the last millisecond explored
MaxAnnounceClock == 5000

\* Math.round of a non-negative number
Round(r) == (2 * r[1] + r[2]) \div (2 * r[2])

\* the live region, the pending clear timers and the last call after
\* announceStatus(message, clearDelay) at time now
announceStatus(message, clearDelay, st, now) ==
    [text |-> message,
     timers |-> IF clearDelay > 0 THEN st.timers \cup { now + clearDelay }
                ELSE st.timers,
     announced |-> [at |-> now, clearDelay |-> clearDelay]]

\* the message announceZoomChange(oldScale, newScale) passes to announceStatus
announceZoomChange(oldScale, newScale) ==
    LET zoomPercent == Round(RMul(newScale, RInt(100)))
    IN  IF RLt(oldScale, newScale)
        THEN [kind |-> "Zoomed in", percent |-> zoomPercent]
        ELSE [kind |-> "Zoomed out", percent |-> zoomPercent]

\* the live region as the handlers find it
Status == [text |-> statusText, timers |-> clearTimers, announced |-> announced]

SetStatus(st) ==
    /\ statusText' = st.text
    /\ clearTimers' = st.timers
    /\ announced' = st.announced

\* a click on a button of the open viewer, at the clock's time
ButtonClick(name) ==
    /\ modalActive
    /\ steps < MaxSteps
    /\ steps' = steps + 1
    /\ lastOp' = Op(name)
    /\ UNCHANGED << loaderVars, calcVars, lastRenderTime, clock, lastRender,
                    outstanding, controlsVars, accessibilityVars, viewerVars,
                    pageVars, openerFocus >>

\* openViewer on a thumbnail whose images all load: showLoading,
\* announceLoadingSuccess and provideImageDescription announce
AnnouncedOpen ==
    LET loading == announceStatus([kind |-> "Loading", percent |-> 0], 3000,
                                  Status, clock)
        loaded == announceStatus([kind |-> "loaded", percent |-> 0], 3000,
                                 loading, clock)
    IN  /\ ViewOpened
        /\ SetStatus(announceStatus([kind |-> "description", percent |-> 0], 4000,
                                    loaded, clock))
        /\ UNCHANGED << loaderVars, calcVars, lastRenderTime, clock, lastRender,
                        outstanding >>

\* PanoramicViewer.zoom(factor) from the zoom buttons
AnnouncedZoomClick ==
    \E factor \in ButtonZoomFactors :
        /\ ButtonClick("zoomClick")
        /\ ViewZoom(factor)
        /\ IF scale' # scale
           THEN SetStatus(announceStatus(announceZoomChange(scale, scale'), 3000,
                                         Status, clock))
           ELSE UNCHANGED statusVars

\* PanoramicViewer.resetView() from the reset button
AnnouncedResetClick ==
    /\ ButtonClick("resetClick")
    /\ ViewReset
    /\ SetStatus(announceStatus([kind |-> "View reset",
                                 percent |-> Round(RMul(scale', RInt(100)))],
                                3000, Status, clock))

\* the callback announceStatus passed to setTimeout runs
ClearTimerFires ==
    \E due \in clearTimers :
        /\ due <= clock
        /\ statusText' = NoStatus
        /\ clearTimers' = clearTimers \ { due }
        /\ lastOp' = Op("clearTimer")
        /\ UNCHANGED << rendererVars, controlsVars, accessibilityVars, viewerVars,
                        pageVars, steps, openerFocus, loaderVars, calcVars,
                        lastRenderTime, clock, lastRender, outstanding, announced >>

\* a second passes; the timers that are due have run
AnnounceTimePasses ==
    /\ clock + 1000 <= MaxAnnounceClock
    /\ \A due \in clearTimers : due > clock
    /\ clock' = clock + 1000
    /\ lastOp' = Op("time")
    /\ UNCHANGED << rendererVars, controlsVars, accessibilityVars, viewerVars,
                    pageVars, steps, openerFocus, loaderVars, calcVars,
                    lastRenderTime, lastRender, outstanding, statusVars >>

AnnounceNext ==
    \/ AnnouncedOpen
    \/ AnnouncedZoomClick
    \/ AnnouncedResetClick
    \/ handleWheel
    \/ ClearTimerFires
    \/ AnnounceTimePasses

SpecAnnounce == ViewInit /\ [][AnnounceNext]_vars

(***************************************************************************)
(* SpecShell: the viewer's open / close life cycle.  Thumbnails are        *)
(* activated in any order, also while earlier opens are still loading;     *)
(* every segment of a load ends with its full-resolution bitmap or with    *)
(* its retries exhausted; the user closes the viewer, presses Escape and   *)
(* moves focus on the page.  The thumbnail previews of a load are left to  *)
(* SpecProgressive.                                                        *)
(***************************************************************************)
\* number of openViewer calls explored by SpecShell
MaxOpens == 2


\* the trigger elements of the page: A and B are panoramas that differ in
\* the image at index 1, S is a single image, X carries only 2 images
Thumbnails == { "A", "B", "S", "X" }

\* dataset.blockType, dataset.alt and the parsed dataset.image(s) of a trigger
TriggerData(t) ==
    CASE t = "A" -> [blockType |-> "panoramic", isArray |-> TRUE,
                     urls |-> << "a1", "a2", "a3" >>, alt |-> "A"]
      [] t = "B" -> [blockType |-> "panoramic", isArray |-> TRUE,
                     urls |-> << "a1", "b2", "a3" >>, alt |-> "B"]
      [] t = "S" -> [blockType |-> "single", isArray |-> FALSE,
                     urls |-> << "s1" >>, alt |-> ""]
      [] t = "X" -> [blockType |-> "panoramic", isArray |-> TRUE,
                     urls |-> << "a1", "a2" >>, alt |-> "X"]
      [] t = "W" -> [blockType |-> "single", isArray |-> TRUE,
                     urls |-> << "" >>, alt |-> "W"]
      [] t = "Y" -> [blockType |-> "single", isArray |-> FALSE,
                     urls |-> << "" >>, alt |-> "Y"]
      [] t = "Z" -> [blockType |-> "panoramic", isArray |-> TRUE,
                     urls |-> << "a1", "", "a3" >>, alt |-> "Z"]

\* the bitmap a URL decodes to
ImageOf(url) ==
    CASE url = "a1" -> Bitmap(url, 200, 100)
      [] url = "a2" -> Bitmap(url, 200, 150)
      [] url = "a3" -> Bitmap(url, 200, 120)
      [] url = "b2" -> Bitmap(url, 300, 100)
      [] OTHER -> Bitmap(url, 100, 200)

\* how the load of a URL can end: with its full-resolution bitmap, or, for
\* the URLs of unreliable hosts, with the error kind of its last attempt
SegmentOutcomes(url) ==
    CASE url = "a2" -> { "full", "timeout" }
      [] url = "b2" -> { "full", "network" }
      [] OTHER -> { "full" }

\* triggers whose attached data has the wrong shape: W is a single-image
\* block carrying an array, Y a single-image block whose object has no url,
\* Z a panorama whose second image has no url (X has the wrong count)
MalformedTriggers == { "W", "X", "Y", "Z" }

\* where focus can go when the user leaves a thumbnail while images load
PageElements == { "body" }

\* a validateImageData that checks only the container and the count
validateImageData_CountOnly(data, type) ==
    IF type = "single"
    THEN ~data.isArray /\ Len(data.urls) = 1
    ELSE data.isArray /\ Len(data.urls) = 3

validateImageData(data, type) ==
    IF type = "single"
    THEN ~data.isArray /\ Len(data.urls) = 1 /\ data.urls[1] # ""
    ELSE /\ data.isArray
         /\ Len(data.urls) = 3
         /\ \A i \in 1..Len(data.urls) : data.urls[i] # ""

\* shouldReloadImages comparing only the lengths of the lists
shouldReloadImages_LengthOnly(last, imageUrls) ==
    last = NoUrls \/ Len(last) # Len(imageUrls)

shouldReloadImages(last, imageUrls) ==
    \/ last = NoUrls
    \/ Len(last) # Len(imageUrls)
    \/ \E i \in 1..Len(last) : last[i] # imageUrls[i]

\* a Promise.all that waits for every segment and resolves with the bitmaps
\* that did load
PromiseAll_Settled(segs) ==
    IF \A i \in 1..Len(segs) : segs[i] # "loading" THEN "resolved" ELSE "pending"

\* the state of Promise.all(loadPromises), given each segment's outcome
PromiseAll(segs) ==
    IF \E i \in 1..Len(segs) : segs[i] = "failed" THEN "rejected"
    ELSE IF \A i \in 1..Len(segs) : segs[i] = "full" THEN "resolved"
    ELSE "pending"

\* the bitmaps of the segments of a load that have loaded, in segment order
LoadedImages(urls, segs) ==
    LET idx == SelectSeq([i \in 1..Len(urls) |-> i], LAMBDA i : segs[i] = "full")
    IN  [j \in 1..Len(idx) |-> ImageOf(urls[idx[j]])]

RemoveAt(seq, k) == [j \in 1..(Len(seq) - 1) |-> IF j < k THEN seq[j] ELSE seq[j + 1]]

ShellInit ==
    /\ ViewInit
    /\ viewerRect = [width |-> 80, height |-> 60]

\* the catch block of openViewer: hide the loading indicator, pick the error
\* kind, announce it and prepend an error panel with a retry button; panels
\* are the error panels in the container at that moment
OpenFails(t, errors, panels) ==
    LET errorType == IF errors # << >> THEN errors[Len(errors)].errorType
                     ELSE "unknown"
    IN  /\ loadingDisplay' = "none"
        /\ errorPanels' = << [kind |-> errorType, thumbnail |-> t] >> \o panels

\* openViewer after loadImages has resolved: stitch, reset the view, remember
\* the URLs, hide the loading indicator and mark the modal open
OpenSucceeds(load, imgs) ==
    LET sc == IF load.blockType = "single" THEN setupSingleImage(imgs, stitchedCanvas)
              ELSE stitchImages(imgs, stitchedCanvas)
        r == resetView(sc, thumbnailStitchedCanvas, canvas, viewerRect, scale, panX,
                       panY, renderScheduled)
    IN  /\ images' = imgs
        /\ stitchedCanvas' = sc
        /\ canvas' = r.canvas
        /\ scale' = r.scale
        /\ panX' = r.panX
        /\ panY' = r.panY
        /\ renderScheduled' = r.renderScheduled
        /\ lastImageUrls' = load.urls
        /\ loadingDisplay' = "none"
        /\ MarkOpen(load.focus, activeElement, errorPanels)

\* openViewer(t) up to its first await; focused is document.activeElement
\* during the call and panels are the error panels in the container
openViewerCall(t, focused, panels) ==
    LET data == TriggerData(t)
        imageUrls == data.urls
        valid == validateImageData(data, data.blockType)
        reload == valid /\ shouldReloadImages(lastImageUrls, imageUrls)
        oldErrorRemoved == IF panels # << >> THEN Tail(panels) ELSE panels
        r == resetView(stitchedCanvas, thumbnailStitchedCanvas, canvas, viewerRect,
                       scale, panX, panY, renderScheduled)
    IN  /\ UNCHANGED utilVars
        /\ lastOp' = [Op("openViewer") EXCEPT !.requested = imageUrls, !.valid = valid,
                                             !.load = reload]
        /\ title' = IF data.alt # "" THEN data.alt ELSE "Panoramic Image Viewer"
        /\ IF ~valid
           THEN /\ OpenFails(t, loadingErrors, oldErrorRemoved)
                /\ activeElement' = focused
                /\ trapEnds' = Detached(trapEnds, oldErrorRemoved)
                /\ UNCHANGED << rendererVars, previousFocus, trapFocusHandler,
                                trapListeners, modalActive, bodyOverflow,
                                docKeydownListeners,
                                lastImageUrls, loads, openerFocus >>
           ELSE IF reload
           THEN /\ loadingDisplay' = "block"
                /\ images' = << >>
                /\ thumbnailImages' = << >>
                /\ loadingErrors' = << >>
                /\ loads' = Append(loads,
                                   [thumbnail |-> t, urls |-> imageUrls,
                                    blockType |-> data.blockType,
                                    segs |-> [i \in 1..Len(imageUrls) |-> "loading"],
                                    thumbs |-> [i \in 1..Len(imageUrls) |-> FALSE],
                                    rejected |-> FALSE, focus |-> focused])
                /\ errorPanels' = oldErrorRemoved
                /\ activeElement' = focused
                /\ UNCHANGED << stitchedCanvas, thumbnailStitchedCanvas, canvas, scale,
                                panX, panY, renderScheduled, rafCallbacks,
                                previousFocus, trapFocusHandler, trapListeners,
                                modalActive, bodyOverflow, docKeydownListeners,
                                lastImageUrls, openerFocus >>
                /\ trapEnds' = Detached(trapEnds, oldErrorRemoved)
           ELSE /\ canvas' = r.canvas
                /\ scale' = r.scale
                /\ panX' = r.panX
                /\ panY' = r.panY
                /\ renderScheduled' = r.renderScheduled
                /\ MarkOpen(focused, focused, oldErrorRemoved)
                /\ errorPanels' = oldErrorRemoved
                /\ UNCHANGED << images, thumbnailImages, loadingErrors, stitchedCanvas,
                                thumbnailStitchedCanvas, rafCallbacks, loadingDisplay,
                                lastImageUrls, loads >>
        /\ UNCHANGED << controlsVars, viewerRect >>

\* an open request of the exploration, which bounds their number
openViewer(t, focused) ==
    /\ steps < MaxOpens
    /\ steps' = steps + 1
    /\ openViewerCall(t, focused, errorPanels)

\* a click, Enter or Space on thumbnail t, which holds focus at that moment;
\* the full-screen modal covers the thumbnails while it is open
ThumbnailActivated ==
    \E t \in Thumbnails :
        /\ ~modalActive
        /\ openViewer(t, t)

\* a click on the retry button of the first error panel; the panel, and the
\* focused button with it, is removed before openViewer runs
RetryClick ==
    /\ errorPanels # << >>
    /\ steps < MaxOpens
    /\ steps' = steps + 1
    /\ openViewerCall(errorPanels[1].thumbnail, "body", Tail(errorPanels))

\* segment i of load k reaches its final outcome: its full-resolution bitmap
\* ("full"), or its last retry failed with an error of the given kind
SegmentSettles ==
    \E k \in 1..Len(loads) :
      \E i \in 1..Len(loads[k].segs) :
       \E kind \in SegmentOutcomes(loads[k].urls[i]) :
        LET load == loads[k]
            failed == kind # "full"
            segs == [load.segs EXCEPT ![i] = IF failed THEN "failed" ELSE "full"]
            \* loadImageProgressive's onRetryAttempt, then loadImages' catch
            errorInfo == [index |-> i - 1, url |-> load.urls[i], errorType |-> kind]
            errors == IF failed THEN loadingErrors \o << errorInfo, errorInfo >>
                      ELSE loadingErrors
            all == IF load.rejected THEN "rejected" ELSE PromiseAll(segs)
            done == \A j \in 1..Len(segs) : segs[j] # "loading"
            after == [load EXCEPT !.segs = segs, !.rejected = (all = "rejected")]
        IN  /\ load.segs[i] = "loading"
            /\ UNCHANGED utilVars
            /\ lastOp' = [Op(IF failed THEN "segmentFailed" ELSE "segmentLoaded")
                            EXCEPT !.requested = load.urls, !.valid = TRUE,
                                   !.resolved = (~load.rejected /\ all = "resolved"),
                                   !.late = load.rejected]
            /\ loadingErrors' = errors
            /\ loads' = IF done THEN RemoveAt(loads, k) ELSE [loads EXCEPT ![k] = after]
            /\ IF ~load.rejected /\ all = "resolved"
               THEN /\ OpenSucceeds(load, LoadedImages(load.urls, segs))
                    /\ UNCHANGED << thumbnailImages, thumbnailStitchedCanvas,
                                    rafCallbacks, errorPanels, title >>
               ELSE IF ~load.rejected /\ all = "rejected"
               THEN /\ OpenFails(load.thumbnail, errors, errorPanels)
                    /\ UNCHANGED << images, thumbnailImages, stitchedCanvas,
                                    thumbnailStitchedCanvas, canvas, scale, panX, panY,
                                    renderScheduled, rafCallbacks, previousFocus,
                                    trapFocusHandler, trapEnds, trapListeners, title,
                                    modalActive, bodyOverflow,
                                    docKeydownListeners, lastImageUrls, activeElement,
                                    openerFocus >>
               ELSE UNCHANGED << images, thumbnailImages, stitchedCanvas,
                                 thumbnailStitchedCanvas, canvas, scale, panX, panY,
                                 renderScheduled, rafCallbacks, accessibilityVars,
                                 modalActive, bodyOverflow, docKeydownListeners,
                                 lastImageUrls, errorPanels, activeElement,
                                 openerFocus >>
            /\ UNCHANGED << controlsVars, viewerRect, steps >>

\* a close() that also throws away the composite and the remembered URLs
close_DiscardsComposite ==
    /\ modalActive' = FALSE
    /\ bodyOverflow' = ""
    /\ docKeydownListeners' = removeKeydownListener(docKeydownListeners)
    /\ activeElement' = IF previousFocus # Null THEN previousFocus ELSE activeElement
    /\ previousFocus' = Null
    /\ trapFocusHandler' = FALSE
    /\ trapEnds' = NoEnds
    /\ trapListeners' = removeFocusTrap(trapFocusHandler, trapListeners)
    /\ stitchedCanvas' = NoCanvas
    /\ lastImageUrls' = NoUrls
    /\ UNCHANGED << images, thumbnailImages, loadingErrors, thumbnailStitchedCanvas,
                    canvas, scale, panX, panY, renderScheduled, rafCallbacks,
                    controlsVars, loadingDisplay, title, errorPanels, loads,
                    viewerRect, steps, openerFocus >>

\* PanoramicViewer.close()
close ==
    /\ modalActive' = FALSE
    /\ bodyOverflow' = ""
    /\ docKeydownListeners' = removeKeydownListener(docKeydownListeners)
    /\ activeElement' = IF previousFocus # Null THEN previousFocus ELSE activeElement
    /\ previousFocus' = Null
    /\ trapFocusHandler' = FALSE
    /\ trapEnds' = NoEnds
    /\ trapListeners' = removeFocusTrap(trapFocusHandler, trapListeners)
    /\ UNCHANGED << rendererVars, controlsVars, loadingDisplay, title, lastImageUrls,
                    errorPanels, loads, viewerRect, steps, openerFocus >>

\* the close button, or a click on the modal's backdrop
CloseClick ==
    /\ UNCHANGED utilVars
    /\ lastOp' = [Op("close") EXCEPT !.closeRuns = 1]
    /\ close

\* an Escape keydown reaches the document: every registered
\* handleModalKeydown runs close()
EscapeKey ==
    /\ UNCHANGED utilVars
    /\ lastOp' = [Op("Escape") EXCEPT !.closeRuns = docKeydownListeners]
    /\ IF docKeydownListeners > 0
       THEN close
       ELSE UNCHANGED << rendererVars, controlsVars, accessibilityVars, viewerVars,
                         pageVars, steps, openerFocus >>

\* the user moves focus to another element of the page while images load
FocusMove ==
    \E el \in PageElements :
        /\ ~modalActive
        /\ loads # << >>
        /\ el # activeElement
        /\ activeElement' = el
        /\ UNCHANGED utilVars
        /\ lastOp' = Op("focus")
        /\ UNCHANGED << rendererVars, controlsVars, accessibilityVars, viewerVars,
                        viewerRect, steps, openerFocus >>

ShellNext ==
    \/ ThumbnailActivated
    \/ RetryClick
    \/ SegmentSettles
    \/ CloseClick
    \/ EscapeKey
    \/ FocusMove

SpecShell == ShellInit /\ [][ShellNext]_vars

(***************************************************************************)
(* Keyboard navigation in the open modal (SpecFocus): thumbnails are       *)
(* activated, loads settle, the retry button of an error panel shown in    *)
(* the open modal is clicked, Tab and Shift+Tab are pressed and the viewer *)
(* is closed.                                                              *)
(***************************************************************************)
\* the tabbable elements of the document in order: the triggers of the page,
\* then the modal, which createModal appends to the body
DocumentOrder(panels) == << "A", "B", "S", "X" >> \o FocusableElements(panels)

IndexOf(seq, el) == CHOOSE i \in 1..Len(seq) : seq[i] = el

InModal(el, panels) ==
    \E i \in 1..Len(FocusableElements(panels)) : FocusableElements(panels)[i] = el

\* the browser's sequential focus navigation from element el
DefaultTab(el, shift, panels) ==
    LET order == DocumentOrder(panels)
        i == IndexOf(order, el)
    IN  IF shift THEN order[IF i = 1 THEN Len(order) ELSE i - 1]
        ELSE order[IF i = Len(order) THEN 1 ELSE i + 1]

\* where Tab can take the focus when no element holds it, after the focused
\* retry button was removed: browsers navigate either from the place of the
\* removed button, at the top of the modal, or from the start of the document
TabFromBody(shift, panels) ==
    LET order == DocumentOrder(panels)
    IN  IF shift THEN { "X", order[Len(order)] }
        ELSE { FocusableElements(panels)[1], order[1] }

\* the keydown handler installed by trapFocus, then the browser's default
\* action unless the handler prevented it
trapFocusHandlerRuns(el, shift, ends, panels) ==
    IF shift /\ el = ends[1] THEN ends[2]
    ELSE IF ~shift /\ el = ends[2]
    THEN (IF ends[1] = "detached" THEN el ELSE ends[1])
    ELSE DefaultTab(el, shift, panels)

\* a Tab or Shift+Tab keydown while the modal is open
TabKey ==
    \E shift \in BOOLEAN :
        /\ modalActive
        /\ lastOp' = Op(IF shift THEN "ShiftTab" ELSE "Tab")
        /\ IF InModal(activeElement, errorPanels)
           THEN activeElement' =
                    IF trapListeners > 0
                    THEN trapFocusHandlerRuns(activeElement, shift, trapEnds,
                                              errorPanels)
                    ELSE DefaultTab(activeElement, shift, errorPanels)
           ELSE activeElement' \in TabFromBody(shift, errorPanels)
        /\ UNCHANGED utilVars
        /\ UNCHANGED << rendererVars, controlsVars, accessibilityVars, viewerVars,
                        viewerRect, steps, openerFocus >>

\* a click on the retry button of the first error panel while the modal is
\* open and no load is in flight
RetryInModal ==
    /\ modalActive
    /\ errorPanels # << >>
    /\ loads = << >>
    /\ openViewerCall(errorPanels[1].thumbnail, "body", Tail(errorPanels))
    /\ UNCHANGED steps

FocusNext ==
    \/ ThumbnailActivated
    \/ SegmentSettles
    \/ RetryInModal
    \/ TabKey
    \/ CloseClick

SpecFocus == ShellInit /\ [][FocusNext]_vars

(***************************************************************************)
(* Two overlapping opens (SpecRace): panorama A is activated, panorama B   *)
(* is activated while open(A) still awaits its images, and the segments of *)
(* both loads settle in any order.                                         *)
(***************************************************************************)
\* the first activation: thumbnail A
RaceOpenA ==
    /\ steps = 0
    /\ openViewer("A", "A")

\* thumbnail B is activated while open(A) awaits loadImages
RaceOpenB ==
    /\ steps = 1
    /\ Len(loads) = 1
    /\ ~loads[1].rejected
    /\ openViewer("B", "B")

RaceNext ==
    \/ RaceOpenA
    \/ RaceOpenB
    \/ SegmentSettles

SpecRace == ShellInit /\ [][RaceNext]_vars

(***************************************************************************)
(* Opens whose drawing fails (SpecDraw): thumbnails are activated, loads   *)
(* settle, and the drawImage of the first render after stitching may       *)
(* raise an error, as it does for a composite the browser cannot draw.     *)
(***************************************************************************)
\* the last segment of load k loads, openViewer stitches the images and
\* resetView's render raises an error: the catch block of openViewer runs
\* before _lastImageUrls is assigned
DrawFails ==
    \E k \in 1..Len(loads) :
      \E i \in 1..Len(loads[k].segs) :
        LET load == loads[k]
            segs == [load.segs EXCEPT ![i] = "full"]
            imgs == LoadedImages(load.urls, segs)
            sc == IF load.blockType = "single"
                  THEN setupSingleImage(imgs, stitchedCanvas)
                  ELSE stitchImages(imgs, stitchedCanvas)
            r == resetView(sc, thumbnailStitchedCanvas, canvas, viewerRect, scale,
                           panX, panY, renderScheduled)
        IN  /\ load.segs[i] = "loading"
            /\ ~load.rejected
            /\ PromiseAll(segs) = "resolved"
            /\ UNCHANGED utilVars
            /\ lastOp' = [Op("drawFailed") EXCEPT !.requested = load.urls,
                                                 !.valid = TRUE]
            /\ loads' = RemoveAt(loads, k)
            /\ images' = imgs
            /\ stitchedCanvas' = sc
            /\ canvas' = r.canvas
            /\ scale' = r.scale
            /\ panX' = r.panX
            /\ panY' = r.panY
            /\ renderScheduled' = r.renderScheduled
            /\ OpenFails(load.thumbnail, loadingErrors, errorPanels)
            /\ UNCHANGED << thumbnailImages, loadingErrors, thumbnailStitchedCanvas,
                            rafCallbacks, controlsVars, previousFocus,
                            trapFocusHandler, trapEnds, trapListeners, title,
                            modalActive, bodyOverflow, docKeydownListeners,
                            lastImageUrls, pageVars, steps, openerFocus >>

DrawNext ==
    \/ ThumbnailActivated
    \/ SegmentSettles
    \/ DrawFails
    \/ CloseClick

SpecDraw == ShellInit /\ [][DrawNext]_vars

(***************************************************************************)
(* Opening from any trigger of the page (SpecTrigger): the well-formed     *)
(* thumbnails and the malformed ones are activated, loads settle, the      *)
(* retry button is clicked and the viewer is closed.                       *)
(***************************************************************************)
MalformedActivated ==
    \E t \in MalformedTriggers :
        /\ ~modalActive
        /\ openViewer(t, t)

TriggerNext ==
    \/ ThumbnailActivated
    \/ MalformedActivated
    \/ RetryClick
    \/ SegmentSettles
    \/ CloseClick

SpecTrigger == ShellInit /\ [][TriggerNext]_vars

(***************************************************************************)
(* Progressive loading (SpecProgressive): each segment of a load may       *)
(* deliver its thumbnail before its full-resolution outcome; thumbnails    *)
(* are activated while earlier loads are still in flight, the view is      *)
(* zoomed and the viewer is closed.                                        *)
(***************************************************************************)
\* number of loads SpecProgressive keeps in flight at a time
MaxInFlight == 1

\* which of the renderer's two composites render() draws
canvasToRender(sc, tc) ==
    IF sc.exists THEN "stitchedCanvas"
    ELSE IF tc.exists THEN "thumbnailStitchedCanvas"
    ELSE "none"

\* ctx.filter during the drawImage of render()
renderFilter(sc, tc) ==
    IF canvasToRender(sc, tc) = "thumbnailStitchedCanvas" /\ sc.exists
    THEN "blur(1px) brightness(0.9)"
    ELSE "none"

\* the triggers activated by SpecProgressive
ProgressiveTriggers == { "A", "S" }

\* PanoramicUtils.createThumbnailUrl(url, 150)
createThumbnailUrl(url) ==
    CASE url = "a1" -> "a1-150x150"
      [] url = "a2" -> "a2-150x150"
      [] url = "a3" -> "a3-150x150"
      [] url = "b2" -> "b2-150x150"
      [] url = "a.jpg" -> "a-150x150.jpg"
      [] url = "b-scaled.jpg" -> "b-150x150.jpg"
      [] url = "c-150x150.jpg" -> "c-150x150.jpg"
      [] OTHER -> "s1-150x150"

\* the bitmap a thumbnail URL decodes to
ThumbnailOf(url) == Bitmap(createThumbnailUrl(url), 150, 150)

\* array[index] = value on a JavaScript array: a write past the end leaves
\* holes in between
SetAt(seq, i, v) ==
    [j \in 1..(IF i > Len(seq) THEN i ELSE Len(seq)) |->
        IF j = i THEN v ELSE IF j <= Len(seq) THEN seq[j] ELSE NoImage]

\* thumbnailsLoaded of the progressCallback closure of a load
thumbnailsLoaded(load) == Cardinality({ i \in 1..Len(load.thumbs) : load.thumbs[i] })

ProgressiveActivated ==
    \E t \in ProgressiveTriggers :
        /\ ~modalActive
        /\ Len(loads) < MaxInFlight
        /\ openViewer(t, t)

\* the thumbnail of segment i of load k arrives while the segment has no
\* final outcome yet: onThumbnailLoad stores it and the progressCallback
\* of openViewer counts it; the last thumbnail of a panorama stitches the
\* thumbnails and resets the view
ThumbnailLoads ==
    \E k \in 1..Len(loads) :
      \E i \in 1..Len(loads[k].segs) :
        LET load == loads[k]
            after == [load EXCEPT !.thumbs[i] = TRUE]
            thumbs == SetAt(thumbnailImages, i, ThumbnailOf(load.urls[i]))
            stitch == load.blockType # "single" /\ thumbnailsLoaded(after) = Len(load.urls)
            tc == IF stitch THEN stitchThumbnails(thumbs, thumbnailStitchedCanvas)
                  ELSE thumbnailStitchedCanvas
            r == resetView(stitchedCanvas, tc, canvas, viewerRect, scale, panX, panY,
                           renderScheduled)
        IN  /\ load.segs[i] = "loading"
            /\ ~load.thumbs[i]
            /\ UNCHANGED utilVars
            /\ lastOp' = [Op("thumbnailLoaded") EXCEPT !.requested = load.urls,
                                                      !.valid = TRUE,
                                                      !.late = load.rejected]
            /\ thumbnailImages' = thumbs
            /\ loads' = [loads EXCEPT ![k] = after]
            /\ thumbnailStitchedCanvas' = tc
            /\ IF stitch
               THEN /\ canvas' = r.canvas
                    /\ scale' = r.scale
                    /\ panX' = r.panX
                    /\ panY' = r.panY
                    /\ renderScheduled' = r.renderScheduled
               ELSE UNCHANGED << canvas, scale, panX, panY, renderScheduled >>
            /\ UNCHANGED << images, loadingErrors, stitchedCanvas, rafCallbacks,
                            controlsVars, accessibilityVars, modalActive, bodyOverflow,
                            docKeydownListeners, lastImageUrls, errorPanels, pageVars,
                            steps, openerFocus >>

ProgressiveNext ==
    \/ ProgressiveActivated
    \/ ThumbnailLoads
    \/ SegmentSettles
    \/ ZoomInClick
    \/ CloseClick

SpecProgressive == ShellInit /\ [][ProgressiveNext]_vars

(***************************************************************************)
(* Stitching the thumbnails that have arrived (SpecThumbs): after          *)
(* loadImages has emptied thumbnailImages, the thumbnails of the three     *)
(* segments arrive in any order and size, and stitchThumbnails is called   *)
(* at any moment.                                                          *)
(***************************************************************************)
\* width and height of the thumbnails the server delivers
ThumbnailSizes == { << 150, 150 >>, << 150, 100 >>, << 100, 150 >> }

\* the URLs of the three segments whose thumbnails are requested
ThumbsUrls == << "a1", "a2", "a3" >>

\* onThumbnailLoad of segment i: this.thumbnailImages[index] = thumbnailImg
ThumbnailArrives ==
    \E i \in 1..Len(ThumbsUrls) :
      \E size \in ThumbnailSizes :
        /\ IF i > Len(thumbnailImages) THEN TRUE ELSE thumbnailImages[i] = NoImage
        /\ thumbnailImages' =
               SetAt(thumbnailImages, i,
                     Bitmap(createThumbnailUrl(ThumbsUrls[i]), size[1], size[2]))
        /\ lastOp' = Op("thumbnailLoaded")
        /\ UNCHANGED utilVars
        /\ UNCHANGED << images, loadingErrors, stitchedCanvas, thumbnailStitchedCanvas,
                        canvas, scale, panX, panY, renderScheduled, rafCallbacks,
                        controlsVars, accessibilityVars, viewerVars, pageVars, steps,
                        openerFocus >>

\* PanoramicRenderer.stitchThumbnails() on the thumbnails stored so far
StitchThumbnailsCalled ==
    /\ thumbnailStitchedCanvas' =
           stitchThumbnails(thumbnailImages, thumbnailStitchedCanvas)
    /\ lastOp' = Op("stitchThumbnails")
    /\ UNCHANGED utilVars
    /\ UNCHANGED << images, thumbnailImages, loadingErrors, stitchedCanvas, canvas,
                    scale, panX, panY, renderScheduled, rafCallbacks, controlsVars,
                    accessibilityVars, viewerVars, pageVars, steps, openerFocus >>

ThumbsNext ==
    \/ ThumbnailArrives
    \/ StitchThumbnailsCalled

SpecThumbs == ShellInit /\ [][ThumbsNext]_vars

(***************************************************************************)
(* A viewing session (SpecSession): the viewer is opened on loaded images, *)
(* zoomed, panned and reset with the buttons and the keyboard, animation   *)
(* frames arrive, and the viewer is closed and opened again.               *)
(***************************************************************************)
SessionNext ==
    \/ ViewOpen
    \/ ZoomInClick
    \/ ZoomOutClick
    \/ ZoomResetClick
    \/ handleKeyDown
    \/ AnimationFrame
    \/ CloseClick
    \/ EscapeKey

SpecSession == ShellInit /\ [][SessionNext]_vars

(***************************************************************************)
(* PanoramicUtils: loading one image (SpecLoad).  Each handler is one      *)
(* step.  A timer is "armed" until its delay has elapsed, then "due" until *)
(* its callback runs ("fired"); clearTimeout makes it "cleared".  An image *)
(* whose promise has settled keeps loading, so its events may still come.  *)
(***************************************************************************)
maxRetries == 3

\* the urls loaded: the second one contains the text 404
LoadUrls == { "a.jpg", "img-404.jpg" }

\* message.includes('404') || message.includes('Not Found')
MentionsNotFound(message) == message.url = "img-404.jpg"

\* new Error(`${prefix}...: ${url}`)
Message(prefix, url) == [prefix |-> prefix, url |-> url]

\* PanoramicUtils.getErrorType; no message of the model mentions 403,
\* Forbidden or CORS
getErrorType(message) ==
    IF message.prefix = "TIMEOUT:" THEN "timeout"
    ELSE IF message.prefix = "NETWORK:" THEN "network"
    ELSE IF MentionsNotFound(message) THEN "not_found"
    ELSE "unknown"

\* the closure of one loadImageWithTimeout(url, timeout) call, right after
\* img.src = url; calls counts the calls of resolve and reject, first is the
\* first handler that ran
NewRequest(url, timeout) ==
    [url |-> url, timeout |-> timeout, isResolved |-> FALSE, timer |-> "armed",
     loadFired |-> FALSE, errorFired |-> FALSE, promise |-> "pending",
     reason |-> NoMessage, calls |-> 0, first |-> "none"]

\* resolve(img) or reject(error): a promise that has settled ignores the call
Settle(r, state, reason) ==
    [r EXCEPT !.promise = IF r.promise = "pending" THEN state ELSE @,
              !.reason = IF r.promise = "pending" THEN reason ELSE @,
              !.calls = @ + 1]

clearTimeout(r) ==
    [r EXCEPT !.timer = IF @ \in { "armed", "due" } THEN "cleared" ELSE @]

\* a timer callback that never rejects
timerCallback_NoReject(r) == r

\* the setTimeout callback of loadImageWithTimeout
timerCallback(r) ==
    IF ~r.isResolved
    THEN Settle([r EXCEPT !.isResolved = TRUE], "rejected", Message("TIMEOUT:", r.url))
    ELSE r

\* a load handler that does not look at isResolved
onload_Unguarded(r) ==
    Settle(clearTimeout([r EXCEPT !.isResolved = TRUE]), "fulfilled", NoMessage)

\* img.onload
onload(r) ==
    IF ~r.isResolved
    THEN Settle(clearTimeout([r EXCEPT !.isResolved = TRUE]), "fulfilled", NoMessage)
    ELSE r

\* img.onerror
onerror(r) ==
    IF ~r.isResolved
    THEN Settle(clearTimeout([r EXCEPT !.isResolved = TRUE]), "rejected",
                Message("NETWORK:", r.url))
    ELSE r

\* the timeout loadImageWithRetry gives attempt number a
RetryTimeout(a) == 5000 + (a * 2000)

LoadInit ==
    /\ ViewerInit
    /\ viewerRect = [width |-> 80, height |-> 60]
    /\ CalcIdle
    /\ loadUrl \in LoadUrls
    /\ requests = << >>
    /\ attempt = 0
    /\ retryState = "idle"
    /\ lastError = NoMessage
    /\ thumbRequest = NoRequest
    /\ phase = "idle"
    /\ events = << >>

\* loadImageWithRetry(url) is called and makes its first attempt
loadImageWithRetry ==
    /\ retryState = "idle"
    /\ attempt' = 0
    /\ requests' = << NewRequest(loadUrl, RetryTimeout(0)) >>
    /\ retryState' = "loading"
    /\ UNCHANGED << appVars, calcVars, timingVars, progressiveVars, loadUrl, lastError >>

\* handler ev of request k has run and left the request as after; when that
\* settles the promise loadImageWithRetry awaits, its loop continues
HandlerRan(k, ev, after) ==
    LET r == requests[k]
        settled == r.promise = "pending" /\ after.promise # "pending"
        awaited == k = Len(requests) /\ retryState = "loading"
    IN  /\ requests' = [requests EXCEPT
                          ![k] = [after EXCEPT !.first = IF @ = "none" THEN ev ELSE @]]
        /\ IF awaited /\ settled
           THEN IF after.promise = "fulfilled"
                THEN /\ retryState' = "returned"
                     /\ UNCHANGED lastError
                ELSE /\ lastError' = after.reason
                     /\ retryState' = IF attempt = maxRetries THEN "thrown"
                                      ELSE "delay"
           ELSE UNCHANGED << retryState, lastError >>
        /\ UNCHANGED << appVars, calcVars, timingVars, progressiveVars, loadUrl, attempt >>

\* the image of a request fires its load event
ImageLoad ==
    \E k \in 1..Len(requests) :
        /\ ~requests[k].loadFired
        /\ HandlerRan(k, "load", onload([requests[k] EXCEPT !.loadFired = TRUE]))

\* the image of a request fires its error event
ImageError ==
    \E k \in 1..Len(requests) :
        /\ ~requests[k].errorFired
        /\ HandlerRan(k, "error", onerror([requests[k] EXCEPT !.errorFired = TRUE]))

\* timeout milliseconds have passed since a request was made
TimerDue ==
    \E k \in 1..Len(requests) :
        /\ requests[k].timer = "armed"
        /\ requests' = [requests EXCEPT ![k].timer = "due"]
        /\ UNCHANGED << appVars, calcVars, timingVars, progressiveVars, loadUrl, attempt, retryState,
                        lastError >>

\* the event loop runs the callback of a timer that is due
TimerFires ==
    \E k \in 1..Len(requests) :
        /\ requests[k].timer = "due"
        /\ HandlerRan(k, "timer", timerCallback([requests[k] EXCEPT !.timer = "fired"]))

\* the backoff delay of loadImageWithRetry is over: the next attempt starts
RetryDelayElapses ==
    /\ retryState = "delay"
    /\ attempt' = attempt + 1
    /\ requests' = Append(requests, NewRequest(loadUrl, RetryTimeout(attempt + 1)))
    /\ retryState' = "loading"
    /\ UNCHANGED << appVars, calcVars, timingVars, progressiveVars, loadUrl, lastError >>

\* the calls loadImageProgressive has made of its onRetryAttempt callback:
\* the only call is in the catch block around the awaited
\* loadImageWithRetry(url), which runs when that call has thrown
onRetryAttemptCalls == IF retryState = "thrown" THEN 1 ELSE 0

LoadNext ==
    \/ loadImageWithRetry
    \/ ImageLoad
    \/ ImageError
    \/ TimerDue
    \/ TimerFires
    \/ RetryDelayElapses

SpecLoad == LoadInit /\ [][LoadNext]_vars

\* time passes and the event loop runs every timer callback that is due
SpecLoadFair ==
    /\ SpecLoad
    /\ WF_vars(TimerDue)
    /\ WF_vars(TimerFires)
    /\ WF_vars(RetryDelayElapses)

(***************************************************************************)
(* One segment of loadImages (SpecSegment): loadImageProgressive tries the *)
(* thumbnail with loadImageWithTimeout(thumbnailUrl, 2000), then awaits    *)
(* loadImageWithRetry(url); loadImages reports the progress and error      *)
(* events of the segment.                                                  *)
(***************************************************************************)
\* the urls of SpecSegment: the second contains -scaled, the third is its
\* own thumbnail url
SegmentUrls == { "a.jpg", "b-scaled.jpg", "c-150x150.jpg" }

\* url.includes('-scaled')
IncludesScaled(url) == url = "b-scaled.jpg"

\* the timeout of the thumbnail attempt
thumbnailTimeout == 2000

\* !(thumbnailUrl !== url && !url.includes('-scaled'))
thumbnailSkipped(url) == createThumbnailUrl(url) = url \/ IncludesScaled(url)

\* a loadImageProgressive that lets the thumbnail's rejection escape
afterThumbnail_Propagates(r) == IF r.promise = "rejected" THEN "rejected" ELSE "full"

\* where loadImageProgressive goes when the thumbnail's promise r has
\* settled: the catch block swallows a rejection
afterThumbnail(r) == "full"

SegmentInit ==
    /\ ViewerInit
    /\ viewerRect = [width |-> 80, height |-> 60]
    /\ CalcIdle
    /\ loadUrl \in SegmentUrls
    /\ requests = << >>
    /\ attempt = 0
    /\ retryState = "idle"
    /\ lastError = NoMessage
    /\ thumbRequest = NoRequest
    /\ phase = "idle"
    /\ events = << >>

\* loadImageProgressive(url, onThumbnailLoad, onRetryAttempt) is called by
\* loadImages: it requests the thumbnail, or skips it and makes the first
\* full-resolution attempt
loadImageProgressive ==
    /\ phase = "idle"
    /\ IF thumbnailSkipped(loadUrl)
       THEN /\ phase' = "full"
            /\ attempt' = 0
            /\ requests' = << NewRequest(loadUrl, RetryTimeout(0)) >>
            /\ retryState' = "loading"
            /\ UNCHANGED thumbRequest
       ELSE /\ phase' = "thumbnail"
            /\ thumbRequest' = NewRequest(createThumbnailUrl(loadUrl), thumbnailTimeout)
            /\ UNCHANGED << attempt, requests, retryState >>
    /\ UNCHANGED << appVars, calcVars, timingVars, loadUrl, lastError, events >>

\* handler ev of the thumbnail request has run and left it as after; when
\* that settles the awaited promise, onThumbnailLoad reports a loaded
\* thumbnail and the first full-resolution attempt is made
ThumbnailHandlerRan(ev, after) ==
    LET r == thumbRequest
        settled == r.promise = "pending" /\ after.promise # "pending"
        next == afterThumbnail(after)
    IN  /\ thumbRequest' = [after EXCEPT !.first = IF @ = "none" THEN ev ELSE @]
        /\ IF phase = "thumbnail" /\ settled
           THEN /\ events' = IF after.promise = "fulfilled"
                             THEN Append(events, "thumbnail") ELSE events
                /\ phase' = next
                /\ IF next = "full"
                   THEN /\ attempt' = 0
                        /\ requests' = << NewRequest(loadUrl, RetryTimeout(0)) >>
                        /\ retryState' = "loading"
                   ELSE UNCHANGED << attempt, requests, retryState >>
           ELSE UNCHANGED << events, phase, attempt, requests, retryState >>
        /\ UNCHANGED << appVars, calcVars, timingVars, loadUrl, lastError >>

\* the thumbnail image fires its load event
ThumbnailLoad ==
    /\ thumbRequest # NoRequest
    /\ ~thumbRequest.loadFired
    /\ ThumbnailHandlerRan("load", onload([thumbRequest EXCEPT !.loadFired = TRUE]))

\* the thumbnail image fires its error event
ThumbnailError ==
    /\ thumbRequest # NoRequest
    /\ ~thumbRequest.errorFired
    /\ ThumbnailHandlerRan("error", onerror([thumbRequest EXCEPT !.errorFired = TRUE]))

\* 2000 milliseconds have passed since the thumbnail was requested
ThumbnailTimerDue ==
    /\ thumbRequest.timer = "armed"
    /\ thumbRequest' = [thumbRequest EXCEPT !.timer = "due"]
    /\ UNCHANGED << appVars, calcVars, timingVars, loadUrl, requests, attempt, retryState,
                    lastError, phase, events >>

\* the event loop runs the thumbnail's timer callback
ThumbnailTimerFires ==
    /\ thumbRequest.timer = "due"
    /\ ThumbnailHandlerRan("timer", timerCallback([thumbRequest EXCEPT !.timer = "fired"]))

\* loadImageWithRetry has returned: loadImageProgressive returns and
\* loadImages reports the segment's 'full' progress event
FullReturns ==
    /\ phase = "full"
    /\ retryState = "returned"
    /\ phase' = "resolved"
    /\ events' = Append(events, "full")
    /\ UNCHANGED << appVars, calcVars, timingVars, loadUrl, requests, attempt, retryState,
                    lastError, thumbRequest >>

\* loadImageWithRetry has thrown: loadImageProgressive calls onRetryAttempt
\* (a 'retry' error event) and rethrows, and the catch block of loadImages
\* reports the 'failed' error event
FullThrows ==
    /\ phase = "full"
    /\ retryState = "thrown"
    /\ phase' = "rejected"
    /\ events' = events \o << "retry", "failed" >>
    /\ UNCHANGED << appVars, calcVars, timingVars, loadUrl, requests, attempt, retryState,
                    lastError, thumbRequest >>

SegmentNext ==
    \/ loadImageProgressive
    \/ ThumbnailLoad
    \/ ThumbnailError
    \/ ThumbnailTimerDue
    \/ ThumbnailTimerFires
    \/ ImageLoad
    \/ ImageError
    \/ TimerDue
    \/ TimerFires
    \/ RetryDelayElapses
    \/ FullReturns
    \/ FullThrows

SpecSegment == SegmentInit /\ [][SegmentNext]_vars

\* time passes, the event loop runs every timer callback that is due and
\* every continuation of a settled promise
SpecSegmentFair ==
    /\ SpecSegment
    /\ WF_vars(loadImageProgressive)
    /\ WF_vars(ThumbnailTimerDue)
    /\ WF_vars(ThumbnailTimerFires)
    /\ WF_vars(TimerDue)
    /\ WF_vars(TimerFires)
    /\ WF_vars(RetryDelayElapses)
    /\ WF_vars(FullReturns)
    /\ WF_vars(FullThrows)

(***************************************************************************)
(* The pure functions applied to arguments drawn from sets (SpecUtils).    *)
(***************************************************************************)
\* the drawImage calls of createStitchedCanvas: destination x, y, width and
\* height of each bitmap
DrawCalls(imgs) ==
    LET maxHeight == MaxHeightOf(imgs)
    IN  [i \in 1..Len(imgs) |->
            LET img == imgs[i]
                x == SumWidth(SubSeq(imgs, 1, i - 1))
                y == Rat(maxHeight - img.height, 2)
                overlap == IF i - 1 > 0 THEN 2 ELSE 0
            IN  [x |-> x - overlap, y |-> y, width |-> img.width + overlap,
                 height |-> img.height]]

ContentWidths == { 300, 1000, 4000 }

ContentHeights == { 200, 300, 1000 }

ViewportWidths == { 500, 800 }

ViewportHeights == { 500, 600 }

SegmentWidths == { 100, 200 }

SegmentHeights == { 100, 120, 150 }

UtilsInit ==
    /\ ViewerInit
    /\ viewerRect = [width |-> 80, height |-> 60]
    /\ LoaderIdle
    /\ calcArgs \in ContentWidths \X ContentHeights \X ViewportWidths \X ViewportHeights
    /\ calcResult = << >>
    /\ stitchInput \in
         { << Bitmap("a1", w, h1), Bitmap("a2", 200, h2), Bitmap("a3", 200, h3) >> :
             w \in SegmentWidths, h1 \in SegmentHeights, h2 \in SegmentHeights,
             h3 \in SegmentHeights }
    /\ stitchResult = NoCanvas
    /\ stitchDraws = << >>
    /\ zoomArgs = NoZoom
    /\ zoomResult = NoZoom

\* PanoramicUtils.calculateOptimalScale of assets/panoramic-viewer.js applied
ApplyCalculateOptimalScale ==
    /\ calcResult = << >>
    /\ calcResult' = calculateOptimalScale(calcArgs[1], calcArgs[2], calcArgs[3],
                                           calcArgs[4])
    /\ UNCHANGED << appVars, loaderVars, timingVars, calcArgs, stitchInput, stitchResult,
                    stitchDraws, zoomArgs, zoomResult >>

\* createStitchedCanvas(images) applied to three loaded segments
ApplyCreateStitchedCanvas ==
    /\ ~stitchResult.exists
    /\ stitchResult' = createStitchedCanvas(stitchInput)
    /\ stitchDraws' = DrawCalls(stitchInput)
    /\ UNCHANGED << appVars, loaderVars, timingVars, calcArgs, calcResult, stitchInput,
                    zoomArgs, zoomResult >>

UtilsNext ==
    \/ ApplyCalculateOptimalScale
    \/ ApplyCreateStitchedCanvas

SpecUtils == UtilsInit /\ [][UtilsNext]_vars

(***************************************************************************)
(* zoomAtPoint applied to renderer states drawn from sets (SpecZoom).      *)
(***************************************************************************)
\* composites of the renderer
ZoomSurfaces == { createStitchedCanvas(imgs) : imgs \in ViewImageSets }

\* scales zoom and resetView leave: the bounds, values between them, and
\* the unclamped value resetView gives a 600x150 composite in an 80x60 viewer
ZoomScales == { minScale, Rat(11, 20), ROne, maxScale, Rat(2, 5) }

\* pans requested before constrainPan
ZoomPans == { << RInt(x), RInt(y) >> : x \in { -1000, 0, 23, 1000 }, y \in { 0, 23, 1000 } }

\* wheel factors (0.9, 1.1) and pinch ratios (40/50, 50/40)
ZoomFactors == { Rat(9, 10), Rat(11, 10), Rat(4, 5), Rat(5, 4) }

ZoomInit ==
    /\ ViewerInit
    /\ viewerRect = [width |-> 80, height |-> 60]
    /\ LoaderIdle
    /\ calcArgs = << >>
    /\ calcResult = << >>
    /\ stitchInput = << >>
    /\ stitchResult = NoCanvas
    /\ stitchDraws = << >>
    /\ zoomArgs \in
         { [applied |-> TRUE, surface |-> sc, canvas |-> cv, scale |-> s,
            panX |-> constrainPan(pan[1], pan[2], s, cv, sc, NoCanvas)[1],
            panY |-> constrainPan(pan[1], pan[2], s, cv, sc, NoCanvas)[2],
            factor |-> f, pointX |-> pt[1], pointY |-> pt[2]] :
             sc \in ZoomSurfaces, cv \in ViewerRects, s \in ZoomScales,
             pan \in ZoomPans, f \in ZoomFactors,
             pt \in { << RInt(p[1]), RInt(p[2]) >> : p \in WheelPoints }
                      \cup { << Rat(c.width, 2), Rat(c.height, 2) >> : c \in ViewerRects } }
    /\ zoomResult = NoZoom

\* PanoramicControls.zoomAtPoint(factor, pointX, pointY) applied
ApplyZoomAtPoint ==
    /\ ~zoomResult.applied
    /\ zoomResult' =
         [applied |-> TRUE,
          after |-> zoomAtPoint(zoomArgs.factor, zoomArgs.pointX, zoomArgs.pointY,
                                zoomArgs.scale, zoomArgs.panX, zoomArgs.panY,
                                zoomArgs.canvas, zoomArgs.surface, NoCanvas, FALSE, 0)]
    /\ UNCHANGED << appVars, loaderVars, timingVars, calcArgs, calcResult, stitchInput,
                    stitchResult, stitchDraws, zoomArgs >>

ZoomNext == ApplyZoomAtPoint

SpecZoom == ZoomInit /\ [][ZoomNext]_vars

(***************************************************************************)
(* PanoramicRenderer.zoom applied to renderer fields and factors drawn     *)
(* from sets (SpecZoomFactor).                                             *)
(***************************************************************************)
\* the factors of the wheel and the pinch, those of the buttons and the
\* keys (1.2 and 0.8), and 1
RendererZoomFactors == ZoomFactors \cup { ROne, Rat(6, 5) }

ZoomFactorInit ==
    /\ ViewerInit
    /\ viewerRect = [width |-> 80, height |-> 60]
    /\ LoaderIdle
    /\ calcArgs = << >>
    /\ calcResult = << >>
    /\ stitchInput = << >>
    /\ stitchResult = NoCanvas
    /\ stitchDraws = << >>
    /\ zoomArgs \in
         { [applied |-> TRUE, surface |-> sc, canvas |-> cv, scale |-> s,
            panX |-> constrainPan(pan[1], pan[2], s, cv, sc, NoCanvas)[1],
            panY |-> constrainPan(pan[1], pan[2], s, cv, sc, NoCanvas)[2],
            factor |-> f, scheduled |-> b] :
             sc \in ZoomSurfaces \cup { NoCanvas }, cv \in ViewerRects,
             s \in ZoomScales, pan \in ZoomPans, f \in RendererZoomFactors,
             b \in BOOLEAN }
    /\ zoomResult = NoZoom

\* PanoramicRenderer.zoom(factor) applied
ApplyZoom ==
    /\ ~zoomResult.applied
    /\ zoomResult' =
         [applied |-> TRUE,
          after |-> zoom(zoomArgs.factor, zoomArgs.scale, zoomArgs.panX, zoomArgs.panY,
                         zoomArgs.canvas, zoomArgs.surface, NoCanvas,
                         zoomArgs.scheduled, 0)]
    /\ UNCHANGED << appVars, loaderVars, timingVars, calcArgs, calcResult, stitchInput,
                    stitchResult, stitchDraws, zoomArgs >>

ZoomFactorNext == ApplyZoom

SpecZoomFactor == ZoomFactorInit /\ [][ZoomFactorNext]_vars

(***************************************************************************)
(* Properties.                                                             *)
(***************************************************************************)
\* the pan range constrainPan allows on an axis
MaxPan(surfaceDim, canvasDim) ==
    RMax(RZero, RDiv(RSub(RMul(RInt(surfaceDim), scale), RInt(canvasDim)), RInt(2)))

Surface == CanvasToUse(stitchedCanvas, thumbnailStitchedCanvas)

\* C1: on a session with a composite surface, after any sequence of zooms
\* and view resets, minScale <= scale <= maxScale.
C1_ScaleWithinBounds ==
    stitchedCanvas.exists => RLe(minScale, scale) /\ RLe(scale, maxScale)

\* C2: whenever a composite surface exists, |panX| <= max(0, (surfaceWidth *
\* scale - canvasWidth) / 2) and |panY| <= max(0, (surfaceHeight * scale -
\* canvasHeight) / 2), after every operation that changes pan or scale.
C2_PanWithinBounds ==
    Surface.exists =>
        /\ RLe(RAbs(panX), MaxPan(Surface.width, canvas.width))
        /\ RLe(RAbs(panY), MaxPan(Surface.height, canvas.height))

\* C2 witness: a drag has pushed the pan onto a non-zero bound on one axis
\* while the other axis has no room to pan at all
C2_Witness ==
    /\ Surface.exists
    /\ isDragging
    /\ panX # RZero
    /\ RAbs(panX) = MaxPan(Surface.width, canvas.width)
    /\ MaxPan(Surface.height, canvas.height) = RZero
    /\ scale # ROne

\* the URL lists of the thumbnails whose data passes validation
CompleteSets ==
    { TriggerData(t).urls : t \in { u \in Thumbnails :
                                    validateImageData(TriggerData(u), TriggerData(u).blockType) } }

C4_ActiveHasFullComposite ==
    modalActive =>
        /\ stitchedCanvas.exists
        /\ stitchedCanvas.from \in CompleteSets
        /\ stitchedCanvas.from = lastImageUrls
        /\ stitchedCanvas.width = SumWidth([i \in 1..Len(lastImageUrls) |->
                                               ImageOf(lastImageUrls[i])])

\* C4 witness: the modal is active on a three-segment composite while the
\* error panel of a failed open is still shown
C4_Witness ==
    /\ modalActive
    /\ stitchedCanvas.exists
    /\ Len(stitchedCanvas.from) = 3
    /\ errorPanels # << >>

C7_EscapeClosesOnce ==
    [][ lastOp'.name = "Escape" =>
            IF modalActive
            THEN /\ lastOp'.closeRuns = 1
                 /\ ~modalActive'
                 /\ docKeydownListeners' = 0
                 /\ bodyOverflow' = ""
            ELSE /\ lastOp'.closeRuns = 0
                 /\ UNCHANGED << rendererVars, controlsVars, accessibilityVars,
                                 viewerVars, pageVars, steps >> ]_vars

\* C7 witness: Escape has closed a viewer that two opens had marked active,
\* the second while the first one's mark was still set
C7_Witness ==
    /\ lastOp.name = "Escape"
    /\ lastOp.closeRuns = 1
    /\ ~modalActive
    /\ docKeydownListeners = 0
    /\ steps >= 2
    /\ loads = << >>
    /\ errorPanels = << >>
    /\ previousFocus = Null
    /\ openerFocus # Null
    /\ stitchedCanvas.exists
    /\ TriggerData(openerFocus).urls # stitchedCanvas.from

\* C8: closing the active viewer puts focus back on the element that was
\* focused when the open that opened it was triggered, never on the viewer.
C8_FocusRestoredToOpener ==
    [][ (lastOp'.name \in { "close", "Escape" } /\ modalActive) =>
            /\ activeElement' = openerFocus
            /\ activeElement' # "viewer" ]_vars

\* what C6 requires of one loadImageWithTimeout call
SettledOnce(r) ==
    /\ r.calls <= 1
    /\ r.promise = "pending" <=> r.first = "none"
    /\ r.promise # "pending" => r.calls = 1
    /\ r.first = "load" => r.promise = "fulfilled"
    /\ r.first = "error" => r.promise = "rejected" /\ getErrorType(r.reason) = "network"
    /\ r.first = "timer" => r.promise = "rejected" /\ getErrorType(r.reason) = "timeout"
    /\ r.timer = "fired" => r.promise # "pending"

\* C6: every loadImageWithTimeout call settles its promise exactly once,
\* with the outcome of the first of load, error and timer to run (resolve,
\* reject as network, reject as timeout); later events change nothing of
\* it; and a call that is pending does not stay pending: its timer rejects
\* it as timeout if neither load nor error comes first.
C6_SettlesOnceFirstEventWins ==
    /\ [](\A k \in 1..Len(requests) : SettledOnce(requests[k]))
    /\ [][\A k \in 1..Len(requests) :
             requests[k].promise # "pending" =>
                 /\ requests'[k].promise = requests[k].promise
                 /\ requests'[k].reason = requests[k].reason
                 /\ requests'[k].calls = requests[k].calls]_vars
    /\ \A k \in 1..(maxRetries + 1) :
           (Len(requests) >= k /\ requests[k].promise = "pending")
               ~> (/\ Len(requests) >= k
                   /\ requests[k].promise # "pending"
                   /\ (~requests[k].loadFired /\ ~requests[k].errorFired)
                          => getErrorType(requests[k].reason) = "timeout")

\* C6 witness: the timer of the first attempt ran first and rejected it as
\* timeout, and the image's load event came after that, during a later
\* attempt, without effect
C6_Witness ==
    /\ Len(requests) >= 2
    /\ requests[1].first = "timer"
    /\ requests[1].loadFired
    /\ requests[1].promise = "rejected"
    /\ getErrorType(requests[1].reason) = "timeout"
    /\ requests[1].calls = 1
    /\ loadUrl = "img-404.jpg"

\* C9: calculateOptimalScale(contentW, contentH, viewportW, viewportH) is
\* min(1, max(viewportH / contentH, viewportW / contentW)); it never exceeds
\* 1, gives 1 for (1000, 200, 500, 500) and 3/5 for (4000, 1000, 800, 600).
C9_OptimalScaleFormula ==
    calcResult # << >> =>
        /\ calcResult = RMin(ROne, RMax(Rat(calcArgs[4], calcArgs[2]),
                                        Rat(calcArgs[3], calcArgs[1])))
        /\ RLe(calcResult, ROne)
        /\ calcArgs = << 1000, 200, 500, 500 >> => calcResult = ROne
        /\ calcArgs = << 4000, 1000, 800, 600 >> => calcResult = Rat(3, 5)

\* the fixed overlap of createStitchedCanvas
overlap == 2

\* C10 as stated: the stitched canvas of three segments is as high as the
\* highest segment and as wide as the sum of the widths minus 2 times the
\* overlap.
C10_WidthMinusOverlaps ==
    stitchResult.exists =>
        /\ stitchResult.height = MaxHeightOf(stitchInput)
        /\ stitchResult.width = SumWidth(stitchInput) - 2 * overlap

\* C10 amended: the stitched canvas is as high as the highest segment and
\* as wide as the sum of the segment widths; the overlap only moves each
\* segment after the first to the left by the overlap and widens it by the
\* overlap when it is drawn, so that every drawing ends where the segment
\* would end without overlap.
C10_WidthIsSumOfWidths ==
    stitchResult.exists =>
        /\ stitchResult.height = MaxHeightOf(stitchInput)
        /\ stitchResult.width = SumWidth(stitchInput)
        /\ \A i \in 1..Len(stitchInput) :
              /\ stitchDraws[i].x + stitchDraws[i].width
                    = SumWidth(SubSeq(stitchInput, 1, i))
              /\ stitchDraws[i].width
                    = stitchInput[i].width + (IF i = 1 THEN 0 ELSE overlap)
        /\ stitchDraws[Len(stitchInput)].x + stitchDraws[Len(stitchInput)].width
              = stitchResult.width

\* C10 witness: segments 200 wide and 100, 150 and 120 high have been
\* stitched into a canvas 600 wide and 150 high
C10_Witness ==
    /\ stitchResult.exists
    /\ [i \in 1..3 |-> stitchInput[i].width] = << 200, 200, 200 >>
    /\ [i \in 1..3 |-> stitchInput[i].height] = << 100, 150, 120 >>
    /\ stitchResult.width = 600
    /\ stitchResult.height = 150

\* C12: at most one animation-frame callback registered by scheduleRender
\* is outstanding at any time.
C12_OneOutstandingCallback == rafCallbacks <= 1

\* the shift zoomAtPoint applies on an axis for a pointer at point when the
\* scale goes from s to t
PointShift(point, canvasDim, s, t) ==
    RNeg(RMul(RSub(point, Rat(canvasDim, 2)), RSub(RDiv(t, s), ROne)))

\* the pan of zoomArgs, shifted from base, clamped for the scale t
ShiftedAndClamped(baseX, baseY, t) ==
    constrainPan(RAdd(baseX, PointShift(zoomArgs.pointX, zoomArgs.canvas.width,
                                        zoomArgs.scale, t)),
                 RAdd(baseY, PointShift(zoomArgs.pointY, zoomArgs.canvas.height,
                                        zoomArgs.scale, t)),
                 t, zoomArgs.canvas, zoomArgs.surface, NoCanvas)

AtCanvasCentre ==
    /\ zoomArgs.pointX = Rat(zoomArgs.canvas.width, 2)
    /\ zoomArgs.pointY = Rat(zoomArgs.canvas.height, 2)

C13_NoRenderAfterClose ==
    [][rafCallbacks' < rafCallbacks => modalActive]_vars

WrongShape(data) ==
    IF data.blockType = "single"
    THEN data.isArray \/ Len(data.urls) # 1 \/ data.urls[1] = ""
    ELSE \/ ~data.isArray
         \/ Len(data.urls) # 3
         \/ \E i \in 1..Len(data.urls) : data.urls[i] = ""

\* the step is openViewer(t): the title and the requested URLs are t's
Activated(t) ==
    /\ lastOp'.name = "openViewer"
    /\ lastOp'.requested = TriggerData(t).urls
    /\ title' = TriggerData(t).alt

\* C15: an openViewer whose trigger data has the wrong shape starts no
\* load (loadImages is not called, so the bitmap lists and loadingErrors
\* are not reset), does not mark the modal open, and leaves _lastImageUrls
\* and both composites unchanged.
C15_WrongShapeFailsBeforeFetch ==
    [][ \A t \in Thumbnails \cup MalformedTriggers :
          (Activated(t) /\ WrongShape(TriggerData(t))) =>
             /\ UNCHANGED << loads, images, thumbnailImages, loadingErrors >>
             /\ UNCHANGED << modalActive, bodyOverflow, docKeydownListeners >>
             /\ UNCHANGED << lastImageUrls, stitchedCanvas, thumbnailStitchedCanvas >>
             /\ ~lastOp'.valid /\ ~lastOp'.load
             /\ loadingDisplay' = "none"
             /\ errorPanels' # << >> ]_vars

\* C15 witness: a viewer that holds a composite from an earlier open has
\* rejected a panorama trigger whose second image has no url
C15_Witness ==
    /\ lastOp.name = "openViewer"
    /\ lastOp.requested = TriggerData("Z").urls
    /\ ~lastOp.valid
    /\ stitchedCanvas.exists
    /\ lastImageUrls # NoUrls
    /\ loads = << >>
    /\ ~modalActive
    /\ errorPanels # << >>

\* C16: when an open fails because its trigger data has the wrong shape,
\* the error kind announced and shown is invalid_data, whatever earlier
\* opens recorded.
C16_InvalidDataKind ==
    [][ \A t \in Thumbnails \cup MalformedTriggers :
          (Activated(t) /\ WrongShape(TriggerData(t))) =>
             /\ errorPanels' # << >>
             /\ errorPanels'[1].kind = "invalid_data" ]_vars

\* C17: the promise of loadImages settles only when every segment has its
\* final outcome (no load is rejected while one of its segments is still
\* loading), and after it has settled no segment callback runs that
\* changes loadingErrors.
C17_SettlesAfterEverySegment ==
    [][ lastOp'.name \in { "segmentFailed", "segmentLoaded" } =>
          /\ \A k \in 1..Len(loads') :
                loads'[k].rejected =>
                   \A j \in 1..Len(loads'[k].segs) : loads'[k].segs[j] # "loading"
          /\ lastOp'.late => UNCHANGED loadingErrors ]_vars

\* the attempts loadImageWithRetry has made so far
Attempts == Len(requests)

\* loadImageWithRetry has returned or thrown
RetryOver == retryState \in { "returned", "thrown" }

\* C18: loadImageWithRetry always terminates; it makes at most
\* maxRetries + 1 attempts; when it returns, the last attempt is the first
\* that succeeded and no attempt follows; when it throws, all
\* maxRetries + 1 attempts have failed and the error thrown is that of the
\* final attempt; it never waits for a backoff delay after the final attempt.
C18_RetryTerminates ==
    /\ [](Attempts <= maxRetries + 1)
    /\ [](retryState = "returned" =>
             /\ requests[Attempts].promise = "fulfilled"
             /\ \A k \in 1..(Attempts - 1) : requests[k].promise = "rejected")
    /\ [](retryState = "thrown" =>
             /\ Attempts = maxRetries + 1
             /\ \A k \in 1..Attempts : requests[k].promise = "rejected"
             /\ lastError = requests[Attempts].reason)
    /\ [](retryState = "delay" => Attempts <= maxRetries)
    /\ [][RetryOver => (Attempts' = Attempts /\ UNCHANGED << retryState, lastError >>)]_vars
    /\ (retryState = "loading") ~> RetryOver

\* C18 witness: all four attempts have failed, the first with a network
\* error and the last with a timeout, and the timeout is what is thrown
C18_Witness ==
    /\ retryState = "thrown"
    /\ Attempts = 4
    /\ requests[1].reason.prefix = "NETWORK:"
    /\ requests[4].reason.prefix = "TIMEOUT:"
    /\ lastError.prefix = "TIMEOUT:"

\* the composite render() draws
DrawnSource == CanvasToUse(stitchedCanvas, thumbnailStitchedCanvas)

\* the scale resetView() computes from composite c
FitOf(c, cv) == calculateOptimalScale(c.width, c.height, cv.width, cv.height)

\* the step delivers the last thumbnail of a panorama, which calls
\* stitchThumbnails and resets the view
ThumbnailsStitched ==
    /\ lastOp'.name = "thumbnailLoaded"
    /\ \E k \in 1..Len(loads) :
          /\ loads[k].blockType # "single"
          /\ thumbnailsLoaded(loads[k]) < Len(loads[k].urls)
          /\ thumbnailsLoaded(loads'[k]) = Len(loads[k].urls)

FailedAttempts ==
    Cardinality({ k \in 1..Len(requests) : requests[k].promise = "rejected" })

\* C20: the retry callback has been invoked once for each full-resolution
\* attempt that has failed, also when a later attempt succeeds, and at the
\* throw every failed attempt has been reported.
C20_OnRetryPerFailedAttempt == onRetryAttemptCalls = FailedAttempts

\* event e has been reported for the segment
Reported(e) == \E i \in 1..Len(events) : events[i] = e

\* C21: loadImageProgressive succeeds exactly when its loadImageWithRetry
\* call succeeds and fails exactly when that call throws, whatever became
\* of the thumbnail attempt (loaded, failed, timed out or skipped), and
\* onThumbnailLoad has been invoked exactly when the thumbnail attempt
\* succeeded.
C21_OutcomeIsFullLoad ==
    /\ [](phase = "resolved" => retryState = "returned")
    /\ [](phase = "rejected" => retryState = "thrown")
    /\ [](Reported("thumbnail") <=> thumbRequest.promise = "fulfilled")
    /\ [][(phase = "resolved" \/ phase = "rejected") => phase' = phase]_vars
    /\ (retryState = "returned") ~> (phase = "resolved")
    /\ (retryState = "thrown") ~> (phase = "rejected")

\* C21 witness: the thumbnail attempt timed out and the operation succeeded
\* on a retry of the full-resolution image
C21_Witness ==
    /\ phase = "resolved"
    /\ thumbRequest.promise = "rejected"
    /\ thumbRequest.first = "timer"
    /\ ~Reported("thumbnail")
    /\ Len(requests) = 2

\* the positions of the segment's terminal events
TerminalEvents == { i \in 1..Len(events) : events[i] = "full" \/ events[i] = "failed" }

C23_ErrorsClearedAtOpen ==
    [][ /\ lastOp'.name = "openViewer" => loadingErrors' = << >>
        /\ (lastOp'.name = "segmentFailed" /\ ~lastOp'.late) =>
              \A i \in 1..Len(loadingErrors') :
                 \E j \in 1..Len(lastOp'.requested) :
                    loadingErrors'[i].url = lastOp'.requested[j] ]_vars

\* C24: zoom(factor) sets scale to clamp(scale * factor, minScale,
\* maxScale) and returns true exactly when that differs from the old scale;
\* it then holds the old pan clamped to the bounds of the new scale and a
\* redraw is pending; when it returns false the scale, the pan and the
\* pending-redraw flag are as before and no callback was registered.
C24_ZoomClampsAndReports ==
    zoomResult.applied =>
        LET a == zoomArgs
            r == zoomResult.after
            expected == clamp(RMul(a.scale, a.factor), minScale, maxScale)
            pan == constrainPan(a.panX, a.panY, expected, a.canvas, a.surface, NoCanvas)
        IN  /\ r.scale = expected
            /\ r.zoomed <=> (expected # a.scale)
            /\ r.zoomed => /\ r.panX = pan[1]
                           /\ r.panY = pan[2]
                           /\ r.renderScheduled
            /\ ~r.zoomed => /\ r.scale = a.scale
                            /\ r.panX = a.panX
                            /\ r.panY = a.panY
                            /\ r.renderScheduled = a.scheduled
                            /\ r.rafCallbacks = 0

\* C24 witness: a zoom out changed the scale and the pan, which was at its
\* bound, was clamped to the narrower bound of the new scale
C24_Witness ==
    /\ zoomResult.applied
    /\ zoomResult.after.zoomed
    /\ RLt(zoomResult.after.scale, zoomArgs.scale)
    /\ zoomResult.after.panX # zoomArgs.panX
    /\ zoomResult.after.panX # RZero

\* the square of the distance between the position of the mousemove of the
\* step and the point of the press
MoveDistanceSquared ==
    LET dx == lastOp'.requested[1] - initialMouseX
        dy == lastOp'.requested[2] - initialMouseY
    IN  dx * dx + dy * dy

SurfacePointUnder(p, canvasDim, surfaceDim, s, pan) ==
    RDiv(RSub(p, renderOrigin(canvasDim, surfaceDim, s, pan)), s)

\* the canvas coordinate at which the point u of the composite is drawn
DrawnAt(u, canvasDim, surfaceDim, s, pan) ==
    RAdd(renderOrigin(canvasDim, surfaceDim, s, pan), RMul(u, s))

\* no clamping took effect in the zoom: the pan left is the old pan plus
\* the shift
PanUnclamped ==
    /\ zoomResult.after.panX =
          RAdd(zoomArgs.panX, PointShift(zoomArgs.pointX, zoomArgs.canvas.width,
                                         zoomArgs.scale, zoomResult.after.scale))
    /\ zoomResult.after.panY =
          RAdd(zoomArgs.panY, PointShift(zoomArgs.pointY, zoomArgs.canvas.height,
                                         zoomArgs.scale, zoomResult.after.scale))

\* C26: when zoomAtPoint changes the scale and no clamping of the pan takes
\* effect, the point of the composite that was drawn under the pointer
\* before the zoom is drawn under the pointer after it, whatever the pan
\* was.
C26_PointUnderPointerFixed ==
    (zoomResult.applied /\ zoomResult.after.zoomed /\ PanUnclamped) =>
        LET a == zoomArgs
            r == zoomResult.after
            ux == SurfacePointUnder(a.pointX, a.canvas.width, a.surface.width,
                                    a.scale, a.panX)
            uy == SurfacePointUnder(a.pointY, a.canvas.height, a.surface.height,
                                    a.scale, a.panY)
        IN  /\ DrawnAt(ux, a.canvas.width, a.surface.width, r.scale, r.panX) = a.pointX
            /\ DrawnAt(uy, a.canvas.height, a.surface.height, r.scale, r.panY) = a.pointY

\* the composite render() would draw
Composite == CanvasToUse(stitchedCanvas, thumbnailStitchedCanvas)

\* a frame callback runs less than renderInterval after the last render
EarlyTick ==
    /\ lastRender.kind # "none"
    /\ ~RLe(renderInterval, RInt(clock - lastRender.at))

\* C27: a frame callback renders only when at least 1000/renderFPS
\* milliseconds have passed since the previous render, scheduled or
\* immediate; a callback that runs earlier draws nothing and leaves the
\* redraw requested with a callback registered for the next frame.
C27_ThrottledRenderSpacing ==
    [][lastOp'.name = "frame" =>
          /\ (lastRender' # lastRender => ~EarlyTick)
          /\ (EarlyTick => /\ lastRender' = lastRender
                           /\ renderScheduled'
                           /\ rafCallbacks' = rafCallbacks
                           /\ outstanding' = outstanding)]_vars

C27_Witness ==
    /\ lastOp.name = "frame"
    /\ lastRender.kind = "scheduled"
    /\ lastRender.at = clock

\* the transform the last render drew is the renderer's transform
DrawnCurrent ==
    /\ lastRender.scale = scale
    /\ lastRender.panX = panX
    /\ lastRender.panY = panY

\* a redraw of the composite is outstanding and the explored time goes on
\* for at least renderInterval: a further step of the clock fits after it
RequestInTime ==
    /\ outstanding
    /\ Composite.exists
    /\ \E dt \in ClockSteps :
          RLe(RAdd(renderInterval, RInt(dt)), RInt(MaxClock - clock))

\* C28: while a composite exists, a redraw requested through scheduleRender
\* always has a frame callback registered until a render has run, the
\* transform is the one last drawn whenever no request is outstanding, and
\* with frames and time going on every request made long enough before
\* the end of the explored time is followed by a render.
C28_RequestEventuallyRendered ==
    /\ []((outstanding /\ Composite.exists) => rafCallbacks > 0)
    /\ []((~outstanding /\ lastRender.kind # "none") => DrawnCurrent)
    /\ (RequestInTime ~> ~outstanding)

C28_Witness ==
    /\ ~outstanding
    /\ lastRender.kind = "scheduled"
    /\ lastRender.panX # RZero
    /\ DrawnCurrent

\* C29: resetView with a composite sets the scale to calculateOptimalScale
\* of the composite's size and the viewport's size, the pan to 0 and the
\* canvas to the viewport's size and renders at once; a second resetView
\* right after it would leave the same state; without a composite it
\* changes nothing.
C29_ResetViewFits ==
    [][(lastOp'.name = "resetView" /\ steps' = steps + 1) =>
          IF Composite.exists
          THEN /\ canvas' = viewerRect
               /\ scale' = calculateOptimalScale(Composite.width, Composite.height,
                                                 viewerRect.width, viewerRect.height)
               /\ panX' = RZero
               /\ panY' = RZero
               /\ lastRender' = [kind |-> "immediate", at |-> clock, scale |-> scale',
                                 panX |-> RZero, panY |-> RZero]
               /\ resetView(stitchedCanvas', thumbnailStitchedCanvas', canvas',
                            viewerRect', scale', panX', panY', renderScheduled')
                    = [canvas |-> canvas', scale |-> scale', panX |-> panX',
                       panY |-> panY', renderScheduled |-> renderScheduled']
          ELSE UNCHANGED << rendererVars, timingVars >>]_vars

C29_Witness ==
    /\ lastOp.name = "resetView"
    /\ lastRender.kind = "immediate"
    /\ lastRender.at = clock
    /\ clock > 0
    /\ rafCallbacks > 0
    /\ ~renderScheduled
    /\ canvas = [width |-> 40, height |-> 40]

\* C30: when the viewer's bounding box changes while a session is open, the
\* canvas takes the new size, the scale becomes the fit scale for it and the
\* pan becomes 0.
C30_ResizeResetsView ==
    [][(viewerRect' # viewerRect /\ modalActive /\ Composite.exists) =>
          /\ canvas' = viewerRect'
          /\ scale' = calculateOptimalScale(Composite.width, Composite.height,
                                            viewerRect'.width, viewerRect'.height)
          /\ panX' = RZero
          /\ panY' = RZero]_vars

\* an openViewer call is waiting for its loadImages
OpenLoading == \E k \in 1..Len(loads) : ~loads[k].rejected

\* C31: the loading indicator is displayed exactly while some open
\* operation is loading.
C31_IndicatorWhileLoading == (loadingDisplay = "block") <=> OpenLoading

\* C32: a zoom from a zoom button or the wheel that changes the scale sets
\* the live region to 'zoomed in' or 'zoomed out', whichever way the scale
\* went, with the new percentage; one that leaves the scale alone leaves the
\* live region alone.
C32_ZoomAnnounced ==
    [][(lastOp'.name \in { "zoomClick", "gesture" } /\ steps' = steps + 1) =>
          IF scale' # scale
          THEN /\ statusText' = [kind |-> IF RLt(scale, scale') THEN "Zoomed in"
                                          ELSE "Zoomed out",
                                 percent |-> Round(RMul(scale', RInt(100)))]
               /\ announced'.at = clock
          ELSE UNCHANGED statusVars]_vars

\* C33: a non-empty live region is never blanked before the clear delay of
\* the announcement it shows has elapsed.
C33_ClearedOnlyAfterOwnDelay ==
    [][(statusText # NoStatus /\ statusText' = NoStatus) =>
          clock >= announced.at + announced.clearDelay]_vars

\* C34: while the viewer is open, Tab on the last focusable element of the
\* modal moves focus to the first, Shift+Tab on the first moves it to the
\* last and no Tab keydown moves focus out of the modal; at most one
\* focus-trap listener is installed on the modal, and none while it is closed.
C34_FocusTrapped ==
    [][ /\ trapListeners' <= 1
        /\ ~modalActive' => trapListeners' = 0
        /\ (modalActive /\ TabKey) =>
              LET focusable == FocusableElements(errorPanels)
              IN  /\ InModal(activeElement', errorPanels)
                  /\ (lastOp'.name = "Tab" /\ activeElement = focusable[Len(focusable)])
                        => activeElement' = focusable[1]
                  /\ (lastOp'.name = "ShiftTab" /\ activeElement = focusable[1])
                        => activeElement' = focusable[Len(focusable)] ]_vars

\* the thumbnails that have arrived, in segment order
ThumbnailsPresent == SelectSeq(thumbnailImages, LAMBDA img : img # NoImage)

\* C35: whenever stitchThumbnails is called after at least one thumbnail has
\* arrived, the preview composite it leaves is built from exactly the
\* thumbnails present, in segment order.
C35_StitchesThumbnailsPresent ==
    [][ (lastOp'.name = "stitchThumbnails" /\ ThumbnailsPresent # << >>) =>
            thumbnailStitchedCanvas' = createStitchedCanvas(ThumbnailsPresent) ]_vars

\* C36: in every state, a render() that draws the thumbnail composite because
\* there is no full-resolution composite applies the blur/darken filter to
\* the draw, and one that draws the full-resolution composite applies none.
C36_FilterMatchesSource ==
    /\ canvasToRender(stitchedCanvas, thumbnailStitchedCanvas) = "thumbnailStitchedCanvas"
          => renderFilter(stitchedCanvas, thumbnailStitchedCanvas)
                 = "blur(1px) brightness(0.9)"
    /\ canvasToRender(stitchedCanvas, thumbnailStitchedCanvas) = "stitchedCanvas"
          => renderFilter(stitchedCanvas, thumbnailStitchedCanvas) = "none"

\* the modal is marked open, the Escape handler is installed and page scroll
\* is suppressed: all three or none
OpenFactsAgree ==
    /\ modalActive <=> docKeydownListeners > 0
    /\ modalActive <=> bodyOverflow = "hidden"

\* the step is an open that failed: at validation, or when its load rejected
FailedOpenStep ==
    \/ lastOp'.name = "openViewer" /\ ~lastOp'.valid
    \/ lastOp'.name = "segmentFailed" /\ Len(errorPanels') > Len(errorPanels)

\* C37: after every step of opening, closing and Escape the modal's open
\* mark, the document Escape handler and the page scroll lock agree, and
\* after a failed open none of the three holds.
C37_OpenFactsAgree ==
    [][ /\ OpenFactsAgree'
        /\ FailedOpenStep =>
              /\ ~modalActive'
              /\ docKeydownListeners' = 0
              /\ bodyOverflow' # "hidden" ]_vars

\* the scale after renderer.zoom(factor) in the current state
ScaleAfterZoom(factor) ==
    zoom(factor, scale, panX, panY, canvas, stitchedCanvas, thumbnailStitchedCanvas,
         renderScheduled, rafCallbacks).scale

\* the scale after a wheel tick with the given factor at pointer position p
ScaleAfterWheel(factor, p) ==
    zoomAtPoint(factor, RInt(p[1]), RInt(p[2]), scale, panX, panY, canvas,
                stitchedCanvas, thumbnailStitchedCanvas, renderScheduled,
                rafCallbacks).scale

\* C38: in every state of an open viewer, zooming in with the button or the
\* + key (factor 1.2) or the wheel (factor 1.1) does not decrease the scale,
\* and zooming out with the button or the - key (factor 0.8) or the wheel
\* (factor 0.9) does not increase it.
C38_ZoomDirection ==
    Composite.exists =>
        /\ ~RLt(ScaleAfterZoom(Rat(12, 10)), scale)
        /\ ~RLt(scale, ScaleAfterZoom(Rat(8, 10)))
        /\ \A p \in WheelPoints :
              /\ ~RLt(ScaleAfterWheel(Rat(11, 10), p), scale)
              /\ ~RLt(scale, ScaleAfterWheel(Rat(9, 10), p))

\* both opens have been requested, both loads have settled and neither failed
BothSettled == steps = 2 /\ loads = << >> /\ errorPanels = << >>

\* C39: when open(B) was requested while open(A) was loading and both loads
\* have succeeded, in whichever order, the composite, the remembered URL
\* list and the title are those of B.
C39_LastRequestWins ==
    BothSettled =>
        /\ stitchedCanvas.exists
        /\ stitchedCanvas.from = TriggerData("B").urls
        /\ lastImageUrls = TriggerData("B").urls
        /\ title = TriggerData("B").alt

\* C40: whenever _lastImageUrls is set, the full-resolution composite was
\* built from exactly those URLs in that order.
C40_CompositeOfRememberedUrls ==
    lastImageUrls # NoUrls =>
        /\ stitchedCanvas.exists
        /\ stitchedCanvas.from = lastImageUrls
====
